---- MODULE Spec2Model ----
(***************************************************************************)
(* Model of the python-cli-ai-coder core: the sandboxed file store         *)
(* (src/utils/file_operations.py), the command runner                      *)
(* (src/utils/command_operations.py) and the agent loop of                 *)
(* ProjectGenerator (src/core/project_generator.py).                       *)
(*                                                                         *)
(* Python strings that the code inspects character by character (paths,    *)
(* command lines) are sequences of one-character strings.  Python's None   *)
(* passed where a string is expected is the one-element sequence PyNone.   *)
(***************************************************************************)
EXTENDS Integers, Sequences, FiniteSets, TLC

VARIABLES
    fs,              \* the filesystem: absolute normalised path -> node
    cwd,             \* the process working directory, os.getcwd()
    spawned,         \* command lines for which subprocess.Popen was called
    lastOp,          \* the utility call made directly (file store / command runner) and its outcome
    pc,              \* where generate_project / add_feature_to_project stands
    useCase,         \* "generate" or "feature"
    selected_features, \* the selected_features argument of generate_project
    cb,              \* the progress_callback passed in: "none", "ok", or "raises"
    step,            \* the local step
    max_steps,       \* the local max_steps
    messages,        \* self.messages
    actions_taken,   \* the local actions_taken
    generated_files, \* generated_files (generate) / new_files (feature)
    generated_dirs,  \* generated_dirs (generate) / new_dirs (feature)
    modified_files,  \* modified_files (feature)
    existing_files,  \* existing_files (feature)
    loopState,       \* RUNNING, COMPLETE, BUDGET_EXHAUSTED or FAILED
    calls,           \* the chat.completions.create calls issued so far
    progress,        \* the invocations of progress_callback so far
    result,          \* the record returned to the caller
    toolTurns,       \* number of replies with tool calls so far
    lastReply,       \* what the model answered to the call of the current step
    executed,        \* ids of the tool calls whose operation was called, in order
    cli              \* main() of src/cli/main.py: its position and its locals

worldVars == <<fs, cwd, spawned>>
loopVars == <<pc, useCase, selected_features, cb, step, max_steps, messages, actions_taken, generated_files,
              generated_dirs, modified_files, existing_files, loopState, calls, progress,
              result, toolTurns, lastReply, executed>>
vars == <<fs, cwd, spawned, lastOp, pc, useCase, selected_features, cb, step, max_steps, messages, actions_taken,
          generated_files, generated_dirs, modified_files, existing_files, loopState, calls,
          progress, result, toolTurns, lastReply, executed, cli>>

-----------------------------------------------------------------------------
(* Python values *)

PyNone == <<"<None>">>
RNone == [t |-> "none"]
RBool(b) == [t |-> "bool", b |-> b]
RStr(s) == [t |-> "str", v |-> s]
\* a datetime.datetime (its value is not modelled) and a pathlib.Path
RDateTime == [t |-> "datetime"]
RPath(p) == [t |-> "Path", v |-> p]

-----------------------------------------------------------------------------
(* posixpath *)

Dot == <<".">>
DotDot == <<".", ".">>
Root == <<"/">>

StartsWith(s, p) == Len(p) <= Len(s) /\ SubSeq(s, 1, Len(p)) = p

isabs(path) == StartsWith(path, <<"/">>)

RECURSIVE SplitFrom(_, _, _)
SplitFrom(s, i, cur) ==
    IF i > Len(s) THEN <<cur>>
    ELSE IF s[i] = "/" THEN <<cur>> \o SplitFrom(s, i + 1, <<>>)
    ELSE SplitFrom(s, i + 1, Append(cur, s[i]))

\* path.split('/')
split_slash(s) == SplitFrom(s, 1, <<>>)

RECURSIVE JoinSlash(_)
\* '/'.join(comps)
JoinSlash(comps) ==
    IF comps = <<>> THEN <<>>
    ELSE IF Len(comps) = 1 THEN comps[1]
    ELSE comps[1] \o <<"/">> \o JoinSlash(Tail(comps))

RECURSIVE NormComps(_, _, _)
NormComps(comps, new, rooted) ==
    IF comps = <<>> THEN new
    ELSE LET c == Head(comps) IN
         IF c = <<>> \/ c = Dot THEN NormComps(Tail(comps), new, rooted)
         ELSE IF \/ c # DotDot
                 \/ (~rooted /\ new = <<>>)
                 \/ (new # <<>> /\ new[Len(new)] = DotDot)
              THEN NormComps(Tail(comps), Append(new, c), rooted)
         ELSE IF new # <<>>
              THEN NormComps(Tail(comps), SubSeq(new, 1, Len(new) - 1), rooted)
         ELSE NormComps(Tail(comps), new, rooted)

normpath(path) ==
    IF path = <<>> THEN Dot
    ELSE LET slashes == IF StartsWith(path, <<"/", "/">>) /\ ~StartsWith(path, <<"/", "/", "/">>)
                        THEN 2
                        ELSE IF StartsWith(path, <<"/">>) THEN 1 ELSE 0
             out == [i \in 1..slashes |-> "/"]
                    \o JoinSlash(NormComps(split_slash(path), <<>>, slashes > 0))
         IN IF out = <<>> THEN Dot ELSE out

path_join(a, b) ==
    IF isabs(b) THEN b
    ELSE IF a = <<>> \/ a[Len(a)] = "/" THEN a \o b
    ELSE a \o <<"/">> \o b

\* os.path.abspath under working directory wd
abspath(path, wd) == normpath(IF isabs(path) THEN path ELSE path_join(wd, path))

RECURSIVE RFindSlash(_, _)
\* path.rfind('/') + 1
RFindSlash(s, i) == IF i = 0 THEN 0 ELSE IF s[i] = "/" THEN i ELSE RFindSlash(s, i - 1)

RECURSIVE RStripSlash(_)
RStripSlash(s) ==
    IF s # <<>> /\ s[Len(s)] = "/" THEN RStripSlash(SubSeq(s, 1, Len(s) - 1)) ELSE s

AllSlashes(s) == \A i \in 1..Len(s) : s[i] = "/"

\* posixpath.split: <<head, tail>>
path_split(p) ==
    LET i == RFindSlash(p, Len(p))
        head == SubSeq(p, 1, i)
        tail == SubSeq(p, i + 1, Len(p))
    IN <<IF head # <<>> /\ ~AllSlashes(head) THEN RStripSlash(head) ELSE head, tail>>

dirname(p) == path_split(p)[1]

-----------------------------------------------------------------------------
(* The filesystem as the kernel sees it.  A node is a directory or a      *)
(* regular file with its content; there are no symbolic links.            *)

DirNode == [kind |-> "dir", content |-> <<>>]
FileNode(c) == [kind |-> "file", content |-> c]

Exists(f, k) == k \in DOMAIN f
IsDirKey(f, k) == k \in DOMAIN f /\ f[k].kind = "dir"
IsFileKey(f, k) == k \in DOMAIN f /\ f[k].kind = "file"

Child(k, name) == IF k = Root THEN k \o name ELSE k \o <<"/">> \o name
Parent(k) == normpath(k \o <<"/", ".", ".">>)

Put(f, k, node) == [x \in DOMAIN f \cup {k} |-> IF x = k THEN node ELSE f[x]]

RECURSIVE Walk(_, _, _)
\* path resolution: every directory the walk passes through must exist
Walk(f, cur, comps) ==
    IF comps = <<>> THEN [ok |-> TRUE, key |-> cur]
    ELSE IF ~IsDirKey(f, cur) THEN [ok |-> FALSE, key |-> cur]
    ELSE LET c == Head(comps) IN
         IF c = <<>> \/ c = Dot THEN Walk(f, cur, Tail(comps))
         ELSE IF c = DotDot THEN Walk(f, Parent(cur), Tail(comps))
         ELSE Walk(f, Child(cur, c), Tail(comps))

Resolve(f, wd, path) ==
    IF path = <<>> \/ path = PyNone THEN [ok |-> FALSE, key |-> wd]
    ELSE Walk(f, IF isabs(path) THEN Root ELSE wd, split_slash(path))

path_exists(f, wd, path) ==
    LET r == Resolve(f, wd, path) IN r.ok /\ Exists(f, r.key)
path_isdir(f, wd, path) ==
    LET r == Resolve(f, wd, path) IN r.ok /\ IsDirKey(f, r.key)
path_isfile(f, wd, path) ==
    LET r == Resolve(f, wd, path) IN r.ok /\ IsFileKey(f, r.key)

\* os.mkdir: err is "" on success, "EEXIST" or "ENOENT" otherwise
os_mkdir(f, wd, name) ==
    LET r == Resolve(f, wd, name) IN
    IF ~r.ok THEN [fs |-> f, err |-> "ENOENT"]
    ELSE IF Exists(f, r.key) THEN [fs |-> f, err |-> "EEXIST"]
    ELSE [fs |-> Put(f, r.key, DirNode), err |-> ""]

RECURSIVE os_makedirs(_, _, _, _)
\* os.makedirs(name, exist_ok): err is "" when it returns, else the error raised
os_makedirs(f, wd, name, exist_ok) ==
    LET s1 == path_split(name)
        s2 == IF s1[2] = <<>> THEN path_split(s1[1]) ELSE s1
        head == s2[1]
        tail == s2[2]
        recurse == head # <<>> /\ tail # <<>> /\ ~path_exists(f, wd, head)
        sub == IF recurse THEN os_makedirs(f, wd, head, exist_ok) ELSE [fs |-> f, err |-> ""]
    IN  IF recurse /\ sub.err \notin {"", "EEXIST"} THEN sub
        ELSE IF recurse /\ tail = Dot THEN [fs |-> sub.fs, err |-> ""]
        ELSE LET m == os_mkdir(sub.fs, wd, name) IN
             IF m.err = "" THEN m
             ELSE IF ~exist_ok \/ ~path_isdir(sub.fs, wd, name) THEN m
             ELSE [fs |-> sub.fs, err |-> ""]

-----------------------------------------------------------------------------
(* src/utils/file_operations.py.  Every operation yields                  *)
(*   raised : an exception left the function,                              *)
(*   ret    : the value returned (RNone when raised),                      *)
(*   fs     : the filesystem afterwards.                                   *)

Returns(r, f) == [raised |-> FALSE, ret |-> r, fs |-> f]
Raises(f) == [raised |-> TRUE, ret |-> RNone, fs |-> f]

is_safe_path(path, wd) == StartsWith(abspath(path, wd), abspath(wd, wd))

RECURSIVE universal_newlines(_)
\* file.read() of a file opened with open(filename, 'r'): text mode with the
\* default newline=None turns every "\r\n" and every lone "\r" into "\n"
universal_newlines(s) ==
    IF s = <<>> THEN <<>>
    ELSE IF Head(s) # "\r" THEN <<Head(s)>> \o universal_newlines(Tail(s))
    ELSE IF Len(s) >= 2 /\ s[2] = "\n" THEN <<"\n">> \o universal_newlines(Tail(Tail(s)))
    ELSE <<"\n">> \o universal_newlines(Tail(s))

read_file(f, wd, filename) ==
    IF filename = PyNone THEN Raises(f)
    ELSE IF ~is_safe_path(filename, wd) THEN Returns(RNone, f)
    ELSE LET r == Resolve(f, wd, filename) IN
         IF r.ok /\ IsFileKey(f, r.key)
         THEN Returns(RStr(universal_newlines(f[r.key].content)), f)
         ELSE Returns(RNone, f)

get_file_metadata(f, wd, filename) ==
    IF filename = PyNone THEN Raises(f)
    ELSE IF ~is_safe_path(filename, wd) THEN Returns(RNone, f)
    ELSE LET p == IF filename = <<>> THEN Dot ELSE filename
             r == Resolve(f, wd, p)
         IN IF ~(r.ok /\ Exists(f, r.key)) THEN Returns(RNone, f)
            ELSE Returns([t |-> "meta",
                          size |-> Len(f[r.key].content),
                          created |-> RDateTime,
                          modified |-> RDateTime,
                          accessed |-> RDateTime,
                          is_directory |-> IsDirKey(f, r.key),
                          is_file |-> IsFileKey(f, r.key),
                          absolute_path |-> RPath(path_join(wd, p))], f)

Entries(f, k) == {x \in DOMAIN f : x # k /\ Parent(x) = k}
EntryName(x) == path_split(x)[2]

list_directory_contents(f, wd, directory) ==
    IF directory = PyNone THEN Raises(f)
    ELSE IF ~is_safe_path(directory, wd) THEN Returns(RNone, f)
    ELSE LET abs_dir == abspath(directory, wd)
             r == Resolve(f, wd, abs_dir)
         IN IF ~(r.ok /\ Exists(f, r.key)) THEN Returns(RNone, f)
            ELSE IF ~IsDirKey(f, r.key) THEN Returns(RNone, f)
            ELSE LET files == {EntryName(x) : x \in {y \in Entries(f, r.key) : IsFileKey(f, y)}}
                     directories == {EntryName(x) : x \in {y \in Entries(f, r.key) : IsDirKey(f, y)}}
                 IN Returns([t |-> "listing",
                             files |-> files,
                             directories |-> directories,
                             total_files |-> Cardinality(files),
                             total_directories |-> Cardinality(directories)], f)

\* open(filename, mode) followed by file.write(content) inside the with block
open_and_write(f, wd, filename, content, mode) ==
    LET r == Resolve(f, wd, filename) IN
    IF mode \notin {"w", "a", "r"} THEN [fs |-> f, ok |-> FALSE]
    ELSE IF ~r.ok \/ IsDirKey(f, r.key) THEN [fs |-> f, ok |-> FALSE]
    ELSE IF mode = "r" THEN [fs |-> f, ok |-> FALSE]
    ELSE LET old == IF mode = "a" /\ IsFileKey(f, r.key) THEN f[r.key].content ELSE <<>>
             opened == Put(f, r.key, FileNode(old))
         IN IF content = PyNone THEN [fs |-> opened, ok |-> FALSE]
            ELSE [fs |-> Put(f, r.key, FileNode(old \o content)), ok |-> TRUE]

write_to_file(f, wd, filename, content, mode) ==
    IF filename = PyNone THEN Raises(f)
    ELSE IF ~is_safe_path(filename, wd) THEN Returns(RBool(FALSE), f)
    ELSE LET directory == dirname(filename)
             made == IF directory # <<>> /\ ~path_exists(f, wd, directory)
                     THEN os_makedirs(f, wd, directory, FALSE)
                     ELSE [fs |-> f, err |-> ""]
         IN IF made.err # "" THEN Returns(RBool(FALSE), made.fs)
            ELSE LET w == open_and_write(made.fs, wd, filename, content, mode)
                 IN Returns(RBool(w.ok), w.fs)

create_directory_NoExistOk(f, wd, directory_name) ==
    IF directory_name = PyNone THEN Raises(f)
    ELSE IF ~is_safe_path(directory_name, wd) THEN Returns(RBool(FALSE), f)
    ELSE LET made == os_makedirs(f, wd, directory_name, FALSE)
         IN Returns(RBool(made.err = ""), made.fs)

create_directory(f, wd, directory_name) ==
    IF directory_name = PyNone THEN Raises(f)
    ELSE IF ~is_safe_path(directory_name, wd) THEN Returns(RBool(FALSE), f)
    ELSE LET made == os_makedirs(f, wd, directory_name, TRUE)
         IN Returns(RBool(made.err = ""), made.fs)

-----------------------------------------------------------------------------
(* src/utils/command_operations.py *)

LowerTable ==
    ("A" :> "a") @@ ("B" :> "b") @@ ("C" :> "c") @@ ("D" :> "d") @@ ("E" :> "e") @@ ("F" :> "f")
    @@ ("G" :> "g") @@ ("H" :> "h") @@ ("I" :> "i") @@ ("J" :> "j") @@ ("K" :> "k") @@ ("L" :> "l")
    @@ ("M" :> "m") @@ ("N" :> "n") @@ ("O" :> "o") @@ ("P" :> "p") @@ ("Q" :> "q") @@ ("R" :> "r")
    @@ ("S" :> "s") @@ ("T" :> "t") @@ ("U" :> "u") @@ ("V" :> "v") @@ ("W" :> "w") @@ ("X" :> "x")
    @@ ("Y" :> "y") @@ ("Z" :> "z")

\* str.lower()
lower(s) == [i \in 1..Len(s) |-> IF s[i] \in DOMAIN LowerTable THEN LowerTable[s[i]] ELSE s[i]]

Whitespace == {" ", "\t", "\n", "\r", "\f"}

RECURSIVE WordsFrom(_, _, _)
WordsFrom(s, i, cur) ==
    IF i > Len(s) THEN (IF cur = <<>> THEN <<>> ELSE <<cur>>)
    ELSE IF s[i] \in Whitespace
         THEN (IF cur = <<>> THEN <<>> ELSE <<cur>>) \o WordsFrom(s, i + 1, <<>>)
    ELSE WordsFrom(s, i + 1, Append(cur, s[i]))

\* str.split() without arguments
split_ws(s) == WordsFrom(s, 1, <<>>)

Sudo == <<"s", "u", "d", "o">>

is_safe_command_CaseSensitive(command) ==
    LET toks == split_ws(command) IN
    ~(\E i \in 1..Len(toks) : toks[i] = Sudo)

is_safe_command(command) ==
    LET toks == split_ws(lower(command)) IN
    ~(\E i \in 1..Len(toks) : toks[i] = Sudo)

\* What the operating system does with a Popen call: the shell exits with
\* a return code, or Popen itself raises (OSError, ValueError).
ProcOutcomes == {"exit0", "exit1", "oserror"}

\* run_command: spawn tells whether subprocess.Popen was called
run_command(command, outcome) ==
    IF command = PyNone THEN [raised |-> TRUE, ret |-> RNone, spawn |-> FALSE]
    ELSE IF ~is_safe_command(command) THEN [raised |-> FALSE, ret |-> RNone, spawn |-> FALSE]
    ELSE IF outcome = "oserror" THEN [raised |-> FALSE, ret |-> RNone, spawn |-> TRUE]
    ELSE [raised |-> FALSE,
          ret |-> [t |-> "proc", returncode |-> IF outcome = "exit0" THEN 0 ELSE 1],
          spawn |-> TRUE]

-----------------------------------------------------------------------------
(* ProjectGenerator._handle_tool_calls *)

\* function_args.get(key, default)
Get(args, key, default) == IF key \in DOMAIN args THEN args[key] ELSE default

\* arguments text that json.loads rejects
BadArgs == [malformed |-> TRUE]
json_loads_fails(args) == "malformed" \in DOMAIN args

\* values json.dumps cannot serialise
Unserialisable(v) == v.t \in {"datetime", "Path"}

RDict(b) == [t |-> "dict", success |-> b]

\* value.isoformat() / str(value) applied to one metadata field
Normalise(v) ==
    IF v.t = "datetime" THEN RStr(<<"iso">>)
    ELSE IF v.t = "Path" THEN RStr(v.v)
    ELSE v

NormaliseMetadata(m) ==
    [m EXCEPT !.created = Normalise(@), !.modified = Normalise(@),
              !.accessed = Normalise(@), !.absolute_path = Normalise(@)]

\* json.dumps(response_content) raises on a datetime or Path inside a dict
json_dumps_fails(v) ==
    v.t = "meta" /\ \E k \in {"created", "modified", "accessed", "absolute_path"} : Unserialisable(v[k])

ToolNames ==
    {"read_file", "get_file_metadata", "list_directory_contents", "write_to_file",
     "run_command", "create_directory"}

\* what one iteration of the for loop leaves: ran tells whether an operation
\* of the file store or the command runner was called
Done(content, f2, sp, ran) ==
    [raised |-> json_dumps_fails(content), content |-> content, fs |-> f2, spawn |-> sp,
     ran |-> ran]
Fail(f2, ran) == [raised |-> TRUE, content |-> RNone, fs |-> f2, spawn |-> {}, ran |-> ran]

\* response_content = <the value the operation returned>
AsReturned(o) == IF o.raised THEN Fail(o.fs, TRUE) ELSE Done(o.ret, o.fs, {}, TRUE)

\* response_content = metadata, after the loop that converts its fields
AsMetadata(o) ==
    IF o.raised THEN Fail(o.fs, TRUE)
    ELSE IF o.ret = RNone THEN Done(RNone, o.fs, {}, TRUE)
    ELSE Done(NormaliseMetadata(o.ret), o.fs, {}, TRUE)

\* response_content = {"success": success}
AsSuccess(o) == IF o.raised THEN Fail(o.fs, TRUE) ELSE Done(RDict(o.ret.b), o.fs, {}, TRUE)

\* response_content = result, for run_command
AsCommandResult(o, f, c) ==
    IF o.raised THEN Fail(f, TRUE) ELSE Done(o.ret, f, IF o.spawn THEN {c} ELSE {}, TRUE)

\* one iteration of the for loop
DispatchOne(f, wd, call, outcome) ==
    LET args == call.args
        name == call.name
    IN  IF json_loads_fails(args) THEN Fail(f, FALSE)
        ELSE IF name = "read_file"
        THEN AsReturned(read_file(f, wd, Get(args, "filename", PyNone)))
        ELSE IF name = "get_file_metadata"
        THEN AsMetadata(get_file_metadata(f, wd, Get(args, "filename", PyNone)))
        ELSE IF name = "list_directory_contents"
        THEN AsReturned(list_directory_contents(f, wd, Get(args, "directory", Dot)))
        ELSE IF name = "write_to_file"
        THEN AsSuccess(write_to_file(f, wd, Get(args, "filename", PyNone),
                                     Get(args, "content", PyNone), Get(args, "mode", "w")))
        ELSE IF name = "run_command"
        THEN AsCommandResult(run_command(Get(args, "command", PyNone), outcome), f,
                             Get(args, "command", PyNone))
        ELSE IF name = "create_directory"
        THEN AsSuccess(create_directory(f, wd, Get(args, "directory_name", PyNone)))
        ELSE Done(RNone, f, {}, FALSE)

Accumulate_UnknownRaises(acc, d, id) ==
    LET stop == d.raised \/ ~d.ran IN
    [raised |-> stop,
     responses |-> IF stop THEN <<>>
                   ELSE Append(acc.responses, [tool_call_id |-> id, output |-> d.content]),
     fs |-> d.fs,
     spawned |-> acc.spawned \cup d.spawn,
     executed |-> IF d.ran THEN Append(acc.executed, id) ELSE acc.executed]

Accumulate_FailureRaises(acc, d, id) ==
    LET stop == d.raised \/ d.content = RNone \/ d.content = RDict(FALSE) IN
    [raised |-> stop,
     responses |-> IF stop THEN <<>>
                   ELSE Append(acc.responses, [tool_call_id |-> id, output |-> d.content]),
     fs |-> d.fs,
     spawned |-> acc.spawned \cup d.spawn,
     executed |-> IF d.ran THEN Append(acc.executed, id) ELSE acc.executed]

\* tool_responses.append(...) after one iteration, or the exception leaving the loop
Accumulate(acc, d, id) ==
    [raised |-> d.raised,
     responses |-> IF d.raised THEN <<>>
                   ELSE Append(acc.responses, [tool_call_id |-> id, output |-> d.content]),
     fs |-> d.fs,
     spawned |-> acc.spawned \cup d.spawn,
     executed |-> IF d.ran THEN Append(acc.executed, id) ELSE acc.executed]

RECURSIVE HandleFrom(_, _, _, _, _)
\* the for loop over tool_calls from position i on; acc is the state reached
HandleFrom(acc, wd, tcs, outs, i) ==
    IF acc.raised \/ i > Len(tcs) THEN acc
    ELSE HandleFrom(Accumulate(acc, DispatchOne(acc.fs, wd, tcs[i], outs[i]), tcs[i].id),
                    wd, tcs, outs, i + 1)

Reversed(q) == [i \in 1..Len(q) |-> q[Len(q) + 1 - i]]

handle_tool_calls_Reversed(f, wd, tcs, outs) ==
    HandleFrom([raised |-> FALSE, responses |-> <<>>, fs |-> f, spawned |-> {}, executed |-> <<>>],
               wd, Reversed(tcs), Reversed(outs), 1)

\* _handle_tool_calls(tool_calls): the responses, or raised when an exception
\* left the loop; fs, spawned and executed tell what was done before that
handle_tool_calls(f, wd, tcs, outs) ==
    HandleFrom([raised |-> FALSE, responses |-> <<>>, fs |-> f, spawned |-> {}, executed |-> <<>>],
               wd, tcs, outs, 1)



-----------------------------------------------------------------------------
(* The world the program runs in. *)

MaxContentLen == 2
MaxPieces == 3
MaxToolTurns == 2
ToolWindow == 2

ProjectRoot == <<"/", "w", "/", "p">>
SiblingDir == <<"/", "w", "/", "p", "2">>

\* /w/p is the working root and holds the file r; /w/p2 is a sibling
\* directory holding the file k
InitFs ==
    (Root :> DirNode) @@ (<<"/", "w">> :> DirNode) @@ (ProjectRoot :> DirNode)
    @@ (Child(ProjectRoot, <<"r">>) :> FileNode(<<"x">>))
    @@ (SiblingDir :> DirNode)
    @@ (Child(SiblingDir, <<"k">>) :> FileNode(<<"y">>))

NoOp == [op |-> "none", path |-> <<>>, content |-> <<>>, mode |-> "",
         ret |-> RNone, raised |-> FALSE, mutated |-> FALSE, spawn |-> FALSE]

\* main() has not been entered
NoMain == [pc |-> "start", original_dir |-> <<>>, project_folder |-> <<>>,
           project_info |-> <<>>, dumped |-> [returned |-> FALSE], rounds |-> 0]

InitWorld ==
    /\ fs = InitFs
    /\ cwd = ProjectRoot
    /\ spawned = {}
    /\ lastOp = NoOp
    /\ cli = NoMain

-----------------------------------------------------------------------------
(* The replies of the model. *)

\* sub in text
Contains(text, sub) ==
    \E i \in 1..(Len(text) - Len(sub) + 1) : SubSeq(text, i, i + Len(sub) - 1) = sub

GenPhrase1 == 
    <<"p", "r", "o", "j", "e", "c", "t", " ", "g", "e", "n", "e", "r", "a", "t", "i", "o", "n",
      " ", "i", "s", " ", "c", "o", "m", "p", "l", "e", "t", "e">>
GenPhrase2 == 
    <<"p", "r", "o", "j", "e", "c", "t", " ", "s", "t", "r", "u", "c", "t", "u", "r", "e", " ",
      "i", "s", " ", "n", "o", "w", " ", "c", "o", "m", "p", "l", "e", "t", "e">>
FeatPhrase1 == 
    <<"f", "e", "a", "t", "u", "r", "e", " ", "i", "m", "p", "l", "e", "m", "e", "n", "t", "a",
      "t", "i", "o", "n", " ", "i", "s", " ", "c", "o", "m", "p", "l", "e", "t", "e">>
FeatPhrase2 == 
    <<"f", "e", "a", "t", "u", "r", "e", " ", "h", "a", "s", " ", "b", "e", "e", "n", " ", "s",
      "u", "c", "c", "e", "s", "s", "f", "u", "l", "l", "y", " ", "a", "d", "d", "e", "d">>

TextWorking == 
    <<"W", "o", "r", "k", "i", "n", "g", " ", "o", "n", " ", "i", "t">>
TextGenDone == 
    <<"p", "r", "o", "j", "e", "c", "t", " ", "g", "e", "n", "e", "r", "a", "t", "i", "o", "n",
      " ", "i", "s", " ", "c", "o", "m", "p", "l", "e", "t", "e">>
TextGenDoneCaps == 
    <<"T", "h", "e", " ", "P", "r", "o", "j", "e", "c", "t", " ", "S", "t", "r", "u", "c", "t",
      "u", "r", "e", " ", "I", "s", " ", "N", "o", "w", " ", "C", "o", "m", "p", "l", "e", "t",
      "e", ".">>
TextGenNotDone == 
    <<"p", "r", "o", "j", "e", "c", "t", " ", "g", "e", "n", "e", "r", "a", "t", "i", "o", "n",
      " ", "i", "s", " ", "n", "o", "t", " ", "c", "o", "m", "p", "l", "e", "t", "e">>
TextFeatDone == 
    <<"f", "e", "a", "t", "u", "r", "e", " ", "i", "m", "p", "l", "e", "m", "e", "n", "t", "a",
      "t", "i", "o", "n", " ", "i", "s", " ", "c", "o", "m", "p", "l", "e", "t", "e">>
TextFeatDoneCaps == 
    <<"O", "K", ":", " ", "F", "E", "A", "T", "U", "R", "E", " ", "H", "A", "S", " ", "B", "E",
      "E", "N", " ", "S", "U", "C", "C", "E", "S", "S", "F", "U", "L", "L", "Y", " ", "A", "D",
      "D", "E", "D">>

\* message.content of a reply without tool calls; PyNone is a null content
TextReplies ==
    {TextWorking, TextGenDone, TextGenDoneCaps, TextGenNotDone, TextFeatDone, TextFeatDoneCaps,
     PyNone}

is_complete_Never(uc, content) == FALSE

is_complete_CaseSensitive(uc, content) ==
    IF uc = "generate"
    THEN Contains(content, GenPhrase1) \/ Contains(content, GenPhrase2)
    ELSE Contains(content, FeatPhrase1) \/ Contains(content, FeatPhrase2)

is_complete_FirstPhraseOnly(uc, content) ==
    IF uc = "generate"
    THEN Contains(lower(content), GenPhrase1)
    ELSE Contains(lower(content), FeatPhrase1)

\* the completion test of the loop of use case uc
is_complete(uc, content) ==
    IF uc = "generate"
    THEN Contains(lower(content), GenPhrase1) \/ Contains(lower(content), GenPhrase2)
    ELSE Contains(lower(content), FeatPhrase1) \/ Contains(lower(content), FeatPhrase2)

Call(name, args) == [name |-> name, args |-> args]

CmdLs == <<"l", "s">>
CmdSudoLs == <<"S", "u", "d", "o", " ", "l", "s">>

\* the tool-call lists a reply may carry
TurnExample ==
    << Call("create_directory", [directory_name |-> <<"a">>]),
       Call("write_to_file", [filename |-> <<"a", "/", "b">>, content |-> <<"y">>]),
       Call("read_file", [filename |-> <<"a", "/", "b">>]) >>
TurnFailures ==
    << Call("read_file", [filename |-> <<"m">>]),
       Call("write_to_file", [filename |-> <<"/", "e">>, content |-> <<"x">>, mode |-> "w"]),
       Call("run_command", [command |-> CmdSudoLs]) >>
TurnMalformed ==
    << Call("write_to_file", [filename |-> <<"r">>, content |-> <<"y">>, mode |-> "w"]),
       Call("create_directory", BadArgs) >>
TurnUnknown ==
    << Call("delete_file", [filename |-> <<"r">>]),
       Call("create_directory", [directory_name |-> <<"d">>]) >>
TurnWrites ==
    << Call("write_to_file", [filename |-> <<"r">>, content |-> <<"y">>, mode |-> "a"]),
       Call("write_to_file", [filename |-> <<"n">>, content |-> <<"x">>, mode |-> "w"]),
       Call("write_to_file", [filename |-> <<"r">>, content |-> <<"y">>]),
       Call("write_to_file", [filename |-> <<"n">>, content |-> <<"y">>, mode |-> "a"]),
       Call("read_file", [filename |-> <<"n">>]) >>
TurnOmitted ==
    << Call("list_directory_contents", [x \in {} |-> <<>>]),
       Call("read_file", [x \in {} |-> <<>>]) >>
TurnCommand ==
    << Call("run_command", [command |-> CmdLs]),
       Call("get_file_metadata", [filename |-> <<"r">>]) >>

ScriptedTurns ==
    {TurnExample, TurnFailures, TurnMalformed, TurnUnknown, TurnWrites, TurnOmitted, TurnCommand}

\* the tool calls of a reply received in step st: the provider gives every
\* tool call an id of its own
WithIds(turn, st) ==
    [i \in 1..Len(turn) |-> [id |-> <<st, i>>, name |-> turn[i].name, args |-> turn[i].args]]

\* one outcome per tool call, for the processes that run_command calls start
OutcomesFor(turn) ==
    {o \in [1..Len(turn) -> ProcOutcomes] :
        \A i \in 1..Len(turn) : turn[i].name # "run_command" => o[i] = "exit0"}

-----------------------------------------------------------------------------
(* ProjectGenerator.generate_project / add_feature_to_project *)

Elems(q) == {q[i] : i \in 1..Len(q)}

NoId == <<0, 0>>
Msg(role, content) ==
    [role |-> role, content |-> content, tool_calls |-> <<>>, tool_call_id |-> NoId,
     output |-> RNone]
\* response_message.model_dump(): the text of a reply is not kept in the model
AssistantMsg(tcs) ==
    [role |-> "assistant", content |-> "reply",
     tool_calls |-> [i \in 1..Len(tcs) |-> tcs[i].id], tool_call_id |-> NoId, output |-> RNone]
ToolMsg(resp) ==
    [role |-> "tool", content |-> "output", tool_calls |-> <<>>,
     tool_call_id |-> resp.tool_call_id, output |-> resp.output]

SummaryRequest == Msg("user", "summary")
ContinueRequest == Msg("user", "continue")

\* selected_features=None, the default of the parameter
NoSelection == [none |-> TRUE, map |-> <<>>]

\* the selected_features arguments: None, the empty dict, dicts with some of
\* the keys and dicts with all four
FeatureMaps ==
    { NoSelection,
      [none |-> FALSE, map |-> <<>>],
      [none |-> FALSE, map |-> [git |-> TRUE]],
      [none |-> FALSE, map |-> [tests |-> FALSE, docs |-> TRUE]],
      [none |-> FALSE, map |-> [git |-> TRUE, tests |-> TRUE, github_actions |-> TRUE,
                                docs |-> TRUE]],
      [none |-> FALSE, map |-> [git |-> FALSE, tests |-> FALSE, github_actions |-> FALSE,
                                docs |-> FALSE]],
      [none |-> FALSE, map |-> [git |-> TRUE, tests |-> FALSE, github_actions |-> FALSE,
                                docs |-> TRUE]] }

\* features_str, as the list of its lines: nothing for None and for the empty
\* dict ("if selected_features:"), else the include list and the exclude list,
\* each under its heading when it is not empty
features_str(sel) ==
    LET keys == <<"git", "tests", "github_actions", "docs">>
        include == [git |-> "Git initialization with appropriate .gitignore",
                    tests |-> "Testing framework with sample tests",
                    github_actions |-> "GitHub Actions CI/CD workflows",
                    docs |-> "Documentation structure and templates"]
        exclude == [git |-> "Do NOT initialize Git or create any .gitignore files",
                    tests |-> "Do NOT include any testing frameworks or test files",
                    github_actions |->
                        "Do NOT include any GitHub Actions or CI/CD workflow files",
                    docs |-> "Do NOT create documentation directories or files beyond a basic README.md"]
        On(k) == Get(sel.map, k, FALSE)
        Off(k) == ~Get(sel.map, k, FALSE)
        include_list == SelectSeq(keys, On)
        exclude_list == SelectSeq(keys, Off)
    IN  IF sel.none \/ DOMAIN sel.map = {} THEN <<>>
        ELSE (IF include_list = <<>> THEN <<>>
              ELSE <<"Please include the following features:">>
                   \o [i \in 1..Len(include_list) |-> include[include_list[i]]])
             \o (IF exclude_list = <<>> THEN <<>>
                 ELSE <<"IMPORTANT - Explicitly exclude these features:">>
                      \o [i \in 1..Len(exclude_list) |-> exclude[exclude_list[i]]])

\* features_info: the empty dict for None and for the empty dict, else the
\* four keys with the values of the argument, False for a missing key
features_info(sel) ==
    IF sel.none \/ DOMAIN sel.map = {} THEN [k \in {} |-> FALSE]
    ELSE [k \in {"git", "tests", "github_actions", "docs"} |-> Get(sel.map, k, FALSE)]

ActionRecord(st, tc, resp) ==
    [step |-> st, action |-> tc.name, args |-> tc.args, result |-> resp.output, error |-> ""]
ErrorRecord(st, text) ==
    [step |-> st, action |-> "", args |-> <<>>, result |-> RNone, error |-> text]

Report_SwapsArguments(log, cur, max, text) ==
    IF cb = "ok" THEN Append(log, [current |-> max, max |-> cur, message |-> text]) ELSE log

Report_NotAtStepStart(log, cur, max, text) ==
    IF cb = "ok" /\ text # "Processing..."
    THEN Append(log, [current |-> cur, max |-> max, message |-> text]) ELSE log

Report(log, cur, max, text) ==
    IF cb = "ok" THEN Append(log, [current |-> cur, max |-> max, message |-> text]) ELSE log

NoResult == [returned |-> FALSE]

NoReply == [kind |-> "none", content |-> PyNone, turn |-> <<>>]
ErrorReply == [kind |-> "error", content |-> PyNone, turn |-> <<>>]
TextReply(content) == [kind |-> "text", content |-> content, turn |-> <<>>]
ToolsReply(tcs, content) == [kind |-> "tools", content |-> content, turn |-> tcs]

has_tool_calls_Never(tcs) == FALSE

\* if response_message.tool_calls:
has_tool_calls(tcs) == tcs # <<>>

loop_continues_OffByOne(st, mx) == st <= mx

loop_continues_Always(st, mx) == TRUE

\* the while condition
loop_continues(st, mx) == st < mx

MaxStepsOf_Swapped(uc) == IF uc = "generate" THEN 15 ELSE 25

MaxStepsOf(uc) == IF uc = "generate" THEN 25 ELSE 15

\* project_info['files_created'] handed to add_feature_to_project
KnownFiles == << <<"r">> >>

InitLoop ==
    /\ pc = "idle"
    /\ useCase = "generate"
    /\ selected_features = NoSelection
    /\ cb = "none"
    /\ step = 0
    /\ max_steps = 0
    /\ messages = <<>>
    /\ actions_taken = <<>>
    /\ generated_files = <<>>
    /\ generated_dirs = <<>>
    /\ modified_files = <<>>
    /\ existing_files = <<>>
    /\ loopState = "RUNNING"
    /\ calls = <<>>
    /\ progress = <<>>
    /\ result = NoResult
    /\ toolTurns = 0
    /\ lastReply = NoReply
    /\ executed = <<>>

InitialMessages_KeepsTranscript(uc, sel) ==
    messages \o <<Msg("system", uc),
                  IF uc = "generate"
                  THEN Msg("user", "task") @@ [features |-> features_str(sel)]
                  ELSE Msg("user", "task")>>

\* self.messages = [...]: the list the function assigns before its loop
InitialMessages(uc, sel) ==
    <<Msg("system", uc),
      IF uc = "generate"
      THEN Msg("user", "task") @@ [features |-> features_str(sel)]
      ELSE Msg("user", "task")>>

\* the code from the entry of the function to the while statement; known is
\* project_info['files_created'], which add_feature_to_project reads
Entry(uc, callback, known, sel) ==
    /\ pc' = "loop"
    /\ useCase' = uc
    /\ selected_features' = sel
    /\ cb' = callback
    /\ step' = 0
    /\ max_steps' = MaxStepsOf(uc)
    /\ messages' = InitialMessages(uc, sel)
    /\ actions_taken' = <<>>
    /\ generated_files' = <<>>
    /\ generated_dirs' = <<>>
    /\ modified_files' = <<>>
    /\ existing_files' = IF uc = "feature" THEN known ELSE <<>>
    /\ loopState' = "RUNNING"
    /\ calls' = <<>>
    /\ progress' = <<>>
    /\ result' = NoResult
    /\ lastReply' = NoReply
    /\ executed' = <<>>
    /\ UNCHANGED <<fs, cwd, spawned, lastOp, toolTurns>>

\* the first call of generate_project or add_feature_to_project on the object
Enter(uc, callback, known, sel) ==
    /\ pc = "idle"
    /\ Entry(uc, callback, known, sel)

\* a further call on the same ProjectGenerator, after the previous call has
\* returned or raised
StartAgain(uc) ==
    /\ pc \in {"returned", "raised"}
    /\ Entry(uc, "none", KnownFiles, NoSelection)
    /\ UNCHANGED cli

\* generate_project or add_feature_to_project called by a caller of its own
Start(uc, callback) ==
    /\ Enter(uc, callback, KnownFiles, NoSelection)
    /\ UNCHANGED cli

\* generate_project called with a selected_features argument
StartSelected(sel) ==
    /\ Enter("generate", "none", <<>>, sel)
    /\ UNCHANGED cli

\* while step < max_steps: step += 1, and the first progress_callback call,
\* which is made outside the try statement
BeginStep ==
    /\ pc = "loop"
    /\ loop_continues(step, max_steps)
    /\ step' = step + 1
    /\ progress' = Report(progress, step + 1, max_steps, "Processing...")
    /\ pc' = IF cb = "raises" THEN "raised" ELSE "call"
    /\ lastReply' = NoReply
    /\ UNCHANGED <<useCase, selected_features, cb, max_steps, messages, actions_taken, generated_files,
                   generated_dirs, modified_files, existing_files, loopState, calls, result,
                   toolTurns, executed>>
    /\ UNCHANGED <<fs, cwd, spawned, lastOp, cli>>

\* the while condition is false: the code after the loop appends the summary request
ExhaustBudget ==
    /\ pc = "loop"
    /\ ~loop_continues(step, max_steps)
    /\ loopState' = "BUDGET_EXHAUSTED"
    /\ messages' = Append(messages, SummaryRequest)
    /\ pc' = "summary"
    /\ UNCHANGED <<useCase, selected_features, cb, step, max_steps, actions_taken, generated_files,
                   generated_dirs, modified_files, existing_files, calls, progress, result,
                   toolTurns, lastReply, executed>>
    /\ UNCHANGED <<fs, cwd, spawned, lastOp, cli>>

is_new_file_SeesEarlierWrites(args, known) ==
    /\ Get(args, "mode", "w") = "w"
    /\ Get(args, "filename", PyNone) \notin Elems(known) \cup Elems(generated_files)

is_new_file_IgnoresMode(args, known) == Get(args, "filename", PyNone) \notin Elems(known)

\* if mode == "w" and filename not in existing_files
is_new_file(args, known) ==
    Get(args, "mode", "w") = "w" /\ Get(args, "filename", PyNone) \notin Elems(known)

\* the message the tracking loop hands to progress_callback for one call, ""
\* when it makes no callback call; files is the list of new files after the call
Announced(tc, files) ==
    IF tc.name = "create_directory" THEN "Created directory"
    ELSE IF tc.name = "write_to_file"
    THEN IF useCase = "generate" \/ Get(tc.args, "filename", PyNone) \in Elems(files)
         THEN "Created file" ELSE "Modified file"
    ELSE IF tc.name = "read_file" /\ useCase = "feature" THEN "Analyzing file"
    ELSE ""

\* progress_callback(step, max_steps, text) raises: the callback "raises" does
\* so on every call, "raises_on_created" on the messages that start with Created
callback_raises(kind, text) ==
    /\ text # ""
    /\ \/ kind = "raises"
       \/ kind = "raises_on_created" /\ text \in {"Created directory", "Created file"}

RECURSIVE TrackFrom(_, _, _, _)
\* the loop over zip(tool_calls, tool_responses) from position i on; raised
\* tells that a progress_callback call of the loop raised
TrackFrom(acc, tcs, resps, i) ==
    IF acc.raised \/ i > Len(tcs) \/ i > Len(resps) THEN acc
    ELSE LET tc == tcs[i]
             rec == ActionRecord(step, tc, resps[i])
             filename == Get(tc.args, "filename", PyNone)
             isNew == is_new_file(tc.args, existing_files)
             next ==
                 IF tc.name = "create_directory"
                 THEN [acc EXCEPT
                         !.dirs = Append(@, Get(tc.args, "directory_name", PyNone)),
                         !.progress = Report(@, step, max_steps, "Created directory")]
                 ELSE IF tc.name = "write_to_file" /\ useCase = "generate"
                 THEN [acc EXCEPT
                         !.files = Append(@, filename),
                         !.progress = Report(@, step, max_steps, "Created file")]
                 ELSE IF tc.name = "write_to_file" /\ isNew
                 THEN [acc EXCEPT
                         !.files = Append(@, filename),
                         !.progress = Report(@, step, max_steps, "Created file")]
                 ELSE IF tc.name = "write_to_file"
                 THEN [acc EXCEPT
                         !.modified = IF filename \notin Elems(@) THEN Append(@, filename) ELSE @,
                         !.progress = Report(@, step, max_steps,
                                             IF filename \in Elems(acc.files)
                                             THEN "Created file" ELSE "Modified file")]
                 ELSE IF tc.name = "read_file" /\ useCase = "feature"
                 THEN [acc EXCEPT !.progress = Report(@, step, max_steps, "Analyzing file")]
                 ELSE acc
         IN IF callback_raises(cb, Announced(tc, next.files))
            THEN [next EXCEPT !.raised = TRUE]
            ELSE TrackFrom([next EXCEPT !.actions = Append(@, rec)], tcs, resps, i + 1)

Failed_KeepsLooping(msgs, log, text) ==
    /\ actions_taken' = Append(actions_taken, ErrorRecord(step, text))
    /\ messages' = msgs
    /\ progress' = log
    /\ pc' = "loop"
    /\ UNCHANGED <<loopState, generated_files, generated_dirs, modified_files>>

Failed_DropsLog(msgs, log, text) ==
    /\ actions_taken' = <<ErrorRecord(step, text)>>
    /\ loopState' = "FAILED"
    /\ messages' = Append(msgs, SummaryRequest)
    /\ progress' = log
    /\ pc' = "summary"
    /\ UNCHANGED <<generated_files, generated_dirs, modified_files>>

\* the except clause of the loop, and the summary request appended after the break
Failed(msgs, log, text) ==
    /\ actions_taken' = Append(actions_taken, ErrorRecord(step, text))
    /\ loopState' = "FAILED"
    /\ messages' = Append(msgs, SummaryRequest)
    /\ progress' = log
    /\ pc' = "summary"
    /\ UNCHANGED <<generated_files, generated_dirs, modified_files>>

\* the except clause reached from the tracking loop, whose appends to the
\* lists and to the action log stay; the summary request follows
FailedInTracking(msgs, actions, text) ==
    /\ actions_taken' = Append(actions, ErrorRecord(step, text))
    /\ loopState' = "FAILED"
    /\ messages' = Append(msgs, SummaryRequest)
    /\ pc' = "summary"

\* the branch for a reply with tool calls
ToolBranch(msgs, tcs, outs) ==
    \E h \in {handle_tool_calls(fs, cwd, tcs, outs)} :
    LET log == Report(progress, step, max_steps, "Processing tool calls") IN
        /\ fs' = h.fs
        /\ spawned' = spawned \cup h.spawned
        /\ executed' = executed \o h.executed
        /\ IF h.raised
           THEN Failed(msgs, log, "dispatch")
           ELSE \E t \in {TrackFrom([files |-> generated_files, dirs |-> generated_dirs,
                                     modified |-> modified_files, actions |-> actions_taken,
                                     progress |-> log, raised |-> FALSE],
                                    tcs, h.responses, 1)} :
                  /\ generated_files' = t.files
                  /\ generated_dirs' = t.dirs
                  /\ modified_files' = t.modified
                  /\ progress' = t.progress
                  /\ IF t.raised
                     THEN FailedInTracking(msgs, t.actions, "callback")
                     ELSE /\ actions_taken' = t.actions
                          /\ messages' = msgs \o [i \in 1..Len(h.responses) |->
                                                      ToolMsg(h.responses[i])]
                          /\ pc' = "loop"
                          /\ UNCHANGED loopState

TextBranch_NullIsText(msgs, content) ==
    /\ UNCHANGED <<fs, spawned, executed>>
    /\ LET log == Report(progress, step, max_steps, "Processing assistant message") IN
       IF content # PyNone /\ is_complete(useCase, content)
       THEN /\ progress' = Report(log, max_steps, max_steps, "complete")
            /\ loopState' = "COMPLETE"
            /\ messages' = Append(msgs, SummaryRequest)
            /\ pc' = "summary"
            /\ UNCHANGED <<actions_taken, generated_files, generated_dirs, modified_files>>
       ELSE /\ progress' = log
            /\ messages' = Append(msgs, ContinueRequest)
            /\ pc' = "loop"
            /\ UNCHANGED <<loopState, actions_taken, generated_files, generated_dirs,
                           modified_files>>

\* the branch for a reply without tool calls
TextBranch(msgs, content) ==
    /\ UNCHANGED <<fs, spawned, executed>>
    /\ IF content = PyNone
       THEN Failed(msgs, progress, "content")
       ELSE LET log == Report(progress, step, max_steps, "Processing assistant message") IN
            IF is_complete(useCase, content)
            THEN /\ progress' = Report(log, max_steps, max_steps, "complete")
                 /\ loopState' = "COMPLETE"
                 /\ messages' = Append(msgs, SummaryRequest)
                 /\ pc' = "summary"
                 /\ UNCHANGED <<actions_taken, generated_files, generated_dirs, modified_files>>
            ELSE /\ progress' = log
                 /\ messages' = Append(msgs, ContinueRequest)
                 /\ pc' = "loop"
                 /\ UNCHANGED <<loopState, actions_taken, generated_files, generated_dirs,
                                modified_files>>

\* a chat.completions.create call: whether it passes tools=, the step it is
\* issued in, the number of messages sent and whether the provider answered
MainCallRecord(ok) ==
    [kind |-> "main", tools |-> TRUE, step |-> step, sent |-> Len(messages), ok |-> ok]

\* the body of the try statement: the model call fails
MainCallFails ==
    /\ pc = "call"
    /\ calls' = Append(calls, MainCallRecord(FALSE))
    /\ lastReply' = ErrorReply
    /\ Failed(messages, progress, "provider")
    /\ UNCHANGED <<useCase, selected_features, cb, step, max_steps, existing_files, result, toolTurns, executed>>
    /\ UNCHANGED <<fs, cwd, spawned, lastOp, cli>>

\* the body of the try statement: the model replies with plain text
MainCallText(content) ==
    /\ pc = "call"
    /\ calls' = Append(calls, MainCallRecord(TRUE))
    /\ lastReply' = TextReply(content)
    /\ TextBranch(Append(messages, AssistantMsg(<<>>)), content)
    /\ UNCHANGED <<useCase, selected_features, cb, step, max_steps, existing_files, result, toolTurns>>
    /\ UNCHANGED <<cwd, lastOp, cli>>

\* the scripted model asks for tools in its first ToolWindow turns or in the
\* last turn of the budget, MaxToolTurns times at most
MayUseTools ==
    /\ toolTurns < MaxToolTurns
    /\ step <= ToolWindow \/ step = max_steps

\* the body of the try statement: the model replies with tool calls, with or
\* without a text beside them
MainCallTools(turn, outs) ==
    /\ pc = "call"
    /\ MayUseTools
    /\ toolTurns' = toolTurns + 1
    /\ calls' = Append(calls, MainCallRecord(TRUE))
    /\ \E content \in {PyNone, TextGenDone, TextFeatDone} :
          LET tcs == WithIds(turn, step) IN
              /\ lastReply' = ToolsReply(tcs, content)
              /\ IF has_tool_calls(tcs)
                 THEN ToolBranch(Append(messages, AssistantMsg(tcs)), tcs, outs)
                 ELSE TextBranch(Append(messages, AssistantMsg(tcs)), content)
    /\ UNCHANGED <<useCase, selected_features, cb, step, max_steps, existing_files, result>>
    /\ UNCHANGED <<cwd, lastOp, cli>>

ResultRecord(text) ==
    [returned |-> TRUE,
     total_steps |-> step,
     total_files |-> Len(generated_files),
     total_directories |-> Len(generated_dirs),
     total_modified_files |-> Len(modified_files),
     files_created |-> generated_files,
     directories_created |-> generated_dirs,
     modified_files |-> modified_files,
     summary |-> text,
     features |-> features_info(selected_features),   \* generate_project only
     actions |-> actions_taken]

SummaryCallRecord_WithTools(ok) ==
    [kind |-> "summary", tools |-> TRUE, step |-> step, sent |-> Len(messages), ok |-> ok]

\* the call after the loop: no tools= argument
SummaryCallRecord(ok) ==
    [kind |-> "summary", tools |-> FALSE, step |-> step, sent |-> Len(messages), ok |-> ok]

\* the summary call returns and the function returns its record
SummaryCallReturns ==
    /\ pc = "summary"
    /\ calls' = Append(calls, SummaryCallRecord(TRUE))
    /\ result' = ResultRecord("text")
    /\ pc' = "returned"
    /\ UNCHANGED <<useCase, selected_features, cb, step, max_steps, messages, actions_taken, generated_files,
                   generated_dirs, modified_files, existing_files, loopState, progress,
                   toolTurns, lastReply, executed>>
    /\ UNCHANGED <<fs, cwd, spawned, lastOp, cli>>

\* the summary call fails: it is not inside a try statement
SummaryCallFails ==
    /\ pc = "summary"
    /\ calls' = Append(calls, SummaryCallRecord(FALSE))
    /\ pc' = "raised"
    /\ UNCHANGED <<useCase, selected_features, cb, step, max_steps, messages, actions_taken, generated_files,
                   generated_dirs, modified_files, existing_files, loopState, progress,
                   result, toolTurns, lastReply, executed>>
    /\ UNCHANGED <<fs, cwd, spawned, lastOp, cli>>

UseCases == {"generate", "feature"}
Callbacks == {"none", "ok", "raises"}

Init ==
    /\ InitWorld
    /\ InitLoop

Next ==
    \/ \E uc \in UseCases, c \in Callbacks : Start(uc, c)
    \/ BeginStep
    \/ ExhaustBudget
    \/ MainCallFails
    \/ \E content \in TextReplies : MainCallText(content)
    \/ \E turn \in ScriptedTurns : \E outs \in OutcomesFor(turn) : MainCallTools(turn, outs)
    \/ SummaryCallReturns
    \/ SummaryCallFails

Spec == Init /\ [][Next]_vars

\* one invocation in which every call the function makes returns: the model
\* calls, the tool operations and the progress callback
NextLive ==
    \/ \E uc \in UseCases, c \in {"none", "ok"} : Start(uc, c)
    \/ BeginStep
    \/ ExhaustBudget
    \/ \E content \in {TextWorking, TextGenDone, TextFeatDone} : MainCallText(content)
    \/ \E turn \in {TurnExample, TurnMalformed} :
          \E outs \in OutcomesFor(turn) : MainCallTools(turn, outs)
    \/ SummaryCallReturns

\* the function is sequential code: it takes its next step whenever it has one
SpecLive == Init /\ [][NextLive]_vars /\ WF_vars(NextLive)

\* one ProjectGenerator whose two functions are called again and again
NextAgain ==
    \/ \E uc \in UseCases : Start(uc, "none")
    \/ \E uc \in UseCases : StartAgain(uc)
    \/ BeginStep
    \/ ExhaustBudget
    \/ MainCallFails
    \/ \E content \in {TextWorking, TextGenDone, TextFeatDone} : MainCallText(content)
    \/ \E outs \in OutcomesFor(TurnExample) : MainCallTools(TurnExample, outs)
    \/ SummaryCallReturns
    \/ SummaryCallFails

SpecAgain == Init /\ [][NextAgain]_vars

\* the loop called with a progress_callback that raises on some of its calls
NextCb ==
    \/ \E uc \in UseCases : Start(uc, "raises_on_created")
    \/ BeginStep
    \/ ExhaustBudget
    \/ MainCallFails
    \/ \E content \in {TextWorking, TextGenDone, TextFeatDone} : MainCallText(content)
    \/ \E turn \in ScriptedTurns : \E outs \in OutcomesFor(turn) : MainCallTools(turn, outs)
    \/ SummaryCallReturns
    \/ SummaryCallFails

SpecCb == Init /\ [][NextCb]_vars

\* generate_project called with each selected_features argument, against a
\* model that answers with text only
NextSel ==
    \/ \E sel \in FeatureMaps : StartSelected(sel)
    \/ BeginStep
    \/ ExhaustBudget
    \/ MainCallFails
    \/ \E content \in {TextWorking, TextGenDone} : MainCallText(content)
    \/ SummaryCallReturns
    \/ SummaryCallFails

SpecSel == Init /\ [][NextSel]_vars

-----------------------------------------------------------------------------
(* The file store and the command runner called directly. *)

PathInputs ==
    { <<"a">>, <<"a", "/", "b">>, <<"r">>, <<".">>, <<>>, PyNone,
      <<"/", "w", "/", "p", "/", "a">>,
      <<".", ".">>,
      <<".", ".", "/", "p", "2", "/", "k">>,
      <<".", ".", "/", "q">>,
      <<"a", "/", ".", ".", "/", ".", ".", "/", "q">>,
      <<"/", "e">> }

ContentInputs == { <<"x">>, <<"\r">>, PyNone }
ModeInputs == { "w", "a" }
\* the (content, mode) pairs of the writes: carriage returns are written in
\* overwrite mode only
WriteInputs == {w \in ContentInputs \X ModeInputs : w[1] = <<"\r">> => w[2] = "w"}

FsOp(name, path, content, mode, outcome) ==
    /\ lastOp = NoOp
    /\ \E out \in {outcome} :
          /\ fs' = out.fs
          /\ lastOp' = [op |-> name, path |-> path, content |-> content, mode |-> mode,
                        ret |-> out.ret, raised |-> out.raised, mutated |-> (out.fs # fs),
                        spawn |-> FALSE]
    /\ UNCHANGED <<cwd, spawned>>
    /\ UNCHANGED loopVars
    /\ UNCHANGED cli

FsRead(p) == FsOp("read_file", p, <<>>, "", read_file(fs, cwd, p))
FsMeta(p) == FsOp("get_file_metadata", p, <<>>, "", get_file_metadata(fs, cwd, p))
FsList(p) == FsOp("list_directory_contents", p, <<>>, "", list_directory_contents(fs, cwd, p))
FsMkdir(p) == FsOp("create_directory", p, <<>>, "", create_directory(fs, cwd, p))

\* the size a file would have after the write stays within MaxContentLen
FitsContent(p, c, m) ==
    LET r == Resolve(fs, cwd, p)
        old == IF m = "a" /\ r.ok /\ IsFileKey(fs, r.key) THEN Len(fs[r.key].content) ELSE 0
    IN c = PyNone \/ old + Len(c) <= MaxContentLen

FsWrite(p, c, m) ==
    /\ lastOp = NoOp
    /\ FitsContent(p, c, m)
    /\ FsOp("write_to_file", p, c, m, write_to_file(fs, cwd, p, c, m))

\* the caller reads back the file it has just written in overwrite mode
FsReadBack ==
    /\ lastOp.op = "write_to_file"
    /\ lastOp.mode = "w"
    /\ ~lastOp.raised
    /\ \E out \in {read_file(fs, cwd, lastOp.path)} :
          lastOp' = [op |-> "read_file", path |-> lastOp.path, content |-> lastOp.content,
                     mode |-> lastOp.mode, ret |-> out.ret, raised |-> out.raised,
                     mutated |-> FALSE, spawn |-> FALSE]
    /\ UNCHANGED <<fs, cwd, spawned>>
    /\ UNCHANGED loopVars
    /\ UNCHANGED cli

\* the caller calls create_directory a second time on the same path; the mode
\* field of lastOp, which create_directory has no use for, marks the second call
FsMkdirAgain ==
    /\ lastOp.op = "create_directory"
    /\ lastOp.mode = ""
    /\ ~lastOp.raised
    /\ \E out \in {create_directory(fs, cwd, lastOp.path)} :
          /\ fs' = out.fs
          /\ lastOp' = [op |-> "create_directory", path |-> lastOp.path, content |-> <<>>,
                        mode |-> "again", ret |-> out.ret, raised |-> out.raised,
                        mutated |-> (out.fs # fs), spawn |-> FALSE]
    /\ UNCHANGED <<cwd, spawned>>
    /\ UNCHANGED loopVars
    /\ UNCHANGED cli

\* the caller takes the result of the call
TakeResult ==
    /\ lastOp # NoOp
    /\ lastOp' = NoOp
    /\ UNCHANGED <<fs, cwd, spawned>>
    /\ UNCHANGED loopVars
    /\ UNCHANGED cli

InitFS ==
    /\ InitWorld
    /\ InitLoop

NextFS ==
    \/ \E p \in PathInputs : FsRead(p)
    \/ \E p \in PathInputs : FsMeta(p)
    \/ \E p \in PathInputs : FsList(p)
    \/ \E p \in PathInputs : FsMkdir(p)
    \/ \E p \in PathInputs, w \in WriteInputs : FsWrite(p, w[1], w[2])
    \/ FsReadBack
    \/ FsMkdirAgain
    \/ TakeResult

SpecFS == InitFS /\ [][NextFS]_vars

CommandPieces ==
    { <<"s", "u", "d", "o">>, <<"S", "U", "D", "O">>, <<"S", "u", "d", "o">>,
      <<" ">>, <<"\t">>, <<"l", "s">>, <<";">>, <<"x">> }

RECURSIVE CommandsOfPieces(_)
\* the command lines made of at most n pieces
CommandsOfPieces(n) ==
    IF n = 0 THEN {<<>>}
    ELSE LET shorter == CommandsOfPieces(n - 1)
         IN shorter \cup {c \o q : c \in shorter, q \in CommandPieces}

CommandInputs == CommandsOfPieces(MaxPieces) \cup {PyNone}

\* one call of run_command from a fresh process
RunCmd(c, outcome) ==
    /\ lastOp = NoOp
    /\ \E out \in {run_command(c, outcome)} :
          /\ lastOp' = [op |-> "run_command", path |-> c, content |-> <<>>, mode |-> outcome,
                        ret |-> out.ret, raised |-> out.raised, mutated |-> FALSE,
                        spawn |-> out.spawn]
          /\ spawned' = IF out.spawn THEN spawned \cup {c} ELSE spawned
    /\ UNCHANGED <<fs, cwd>>
    /\ UNCHANGED loopVars
    /\ UNCHANGED cli

NextCmd == \E c \in CommandInputs, o \in ProcOutcomes : RunCmd(c, o)

SpecCmd == InitFS /\ [][NextCmd]_vars

-----------------------------------------------------------------------------
(* src/cli/main.py: main() and add_features_to_project().  The operator's  *)
(* answers at the prompts are the inputs; the generator that main() calls  *)
(* is the loop above, with the progress callback of main().                *)

MaxFeatureRounds == 1

\* os.chdir(path)
os_chdir(f, wd, path) ==
    LET r == Resolve(f, wd, path) IN
    IF r.ok /\ IsDirKey(f, r.key) THEN [ok |-> TRUE, cwd |-> r.key]
    ELSE [ok |-> FALSE, cwd |-> wd]

\* the answers at the "Project directory" prompt: the current directory, a
\* relative path with a parent (like the default projects/<name>), an
\* absolute path
FolderInputs == { <<".">>, <<"j", "/", "n">>, <<"/", "w", "/", "q">> }

\* the answer at the "Enter project name" prompt
ProjectName == <<"n">>

\* f"{project_name}_generation_summary.json"
SummaryName ==
    ProjectName \o <<"_", "g", "e", "n", "e", "r", "a", "t", "i", "o", "n", "_",
                     "s", "u", "m", "m", "a", "r", "y", ".", "j", "s", "o", "n">>

\* the text json.dump(result, f, indent=2) writes; the value dumped is kept in
\* cli.dumped until the operator answers the next prompt
JsonText == <<"{", "}">>

\* the two os.makedirs calls of main(): the parent directory, then the project directory
make_project_dirs(f, wd, folder) ==
    LET parent_dir == dirname(folder)
        m1 == IF parent_dir # <<>> /\ ~path_exists(f, wd, parent_dir)
              THEN os_makedirs(f, wd, parent_dir, TRUE) ELSE [fs |-> f, err |-> ""]
    IN  IF m1.err # "" THEN m1
        ELSE IF ~path_exists(m1.fs, wd, folder) THEN os_makedirs(m1.fs, wd, folder, TRUE)
        ELSE m1

\* the generator function is left: its locals are gone
Left ==
    /\ pc' = "idle"
    /\ useCase' = "generate"
    /\ selected_features' = NoSelection
    /\ cb' = "none"
    /\ step' = 0
    /\ max_steps' = 0
    /\ messages' = <<>>
    /\ actions_taken' = <<>>
    /\ generated_files' = <<>>
    /\ generated_dirs' = <<>>
    /\ modified_files' = <<>>
    /\ existing_files' = <<>>
    /\ loopState' = "RUNNING"
    /\ calls' = <<>>
    /\ progress' = <<>>
    /\ result' = NoResult
    /\ lastReply' = NoReply
    /\ executed' = <<>>
    /\ UNCHANGED toolTurns

\* main() from its entry to the feature prompts: the project directory is
\* created, the API key is looked up, the working directory is changed
MainPrepare(folder, has_key) ==
    /\ cli.pc = "start"
    /\ pc = "idle"
    /\ \E made \in {make_project_dirs(fs, cwd, folder)} :
          /\ fs' = made.fs
          /\ IF made.err # ""
             THEN cli' = [cli EXCEPT !.pc = "raised"] /\ UNCHANGED cwd
             ELSE IF ~has_key
             THEN cli' = [cli EXCEPT !.pc = "done"] /\ UNCHANGED cwd
             ELSE \E moved \in {IF abspath(cwd, cwd) # abspath(folder, cwd)
                                THEN os_chdir(made.fs, cwd, folder)
                                ELSE [ok |-> TRUE, cwd |-> cwd]} :
                    /\ cwd' = moved.cwd
                    /\ cli' = [cli EXCEPT !.pc = IF moved.ok THEN "confirm" ELSE "raised",
                                          !.original_dir = cwd,
                                          !.project_folder = folder]
    /\ UNCHANGED <<spawned, lastOp>>
    /\ UNCHANGED loopVars

MainDeclines_SavesSummary ==
    /\ cli.pc = "confirm"
    /\ fs' = open_and_write(fs, cwd, SummaryName, JsonText, "w").fs
    /\ cwd' = os_chdir(fs, cwd, cli.original_dir).cwd
    /\ cli' = [cli EXCEPT !.pc = "done"]
    /\ UNCHANGED <<spawned, lastOp>>
    /\ UNCHANGED loopVars

\* "Ready to generate your project?" answered no
MainDeclines ==
    /\ cli.pc = "confirm"
    /\ cwd' = os_chdir(fs, cwd, cli.original_dir).cwd
    /\ cli' = [cli EXCEPT !.pc = "done"]
    /\ UNCHANGED <<fs, spawned, lastOp>>
    /\ UNCHANGED loopVars

\* "Ready to generate your project?" answered yes: generate_project is called
MainConfirms ==
    /\ cli.pc = "confirm"
    /\ \E sel \in {m \in FeatureMaps : Cardinality(DOMAIN m.map) = 4 /\ m.map.git} :
          Enter("generate", "ok", <<>>, sel)
    /\ cli' = [cli EXCEPT !.pc = "generating"]

\* generate_project returned: the result is shown and saved to the summary file
MainSavesSummary ==
    /\ cli.pc = "generating"
    /\ pc = "returned"
    /\ \E w \in {open_and_write(fs, cwd, path_join(cli.project_folder, SummaryName),
                                JsonText, "w")} :
          /\ fs' = w.fs
          /\ cli' = IF w.ok
                    THEN [cli EXCEPT !.pc = "ask_features",
                                     !.project_info = result.files_created,
                                     !.dumped = result]
                    ELSE [cli EXCEPT !.pc = "raised"]
    /\ UNCHANGED <<cwd, spawned, lastOp>>
    /\ Left

\* an exception left generate_project or add_feature_to_project: nothing in
\* main() or add_features_to_project() catches it
MainPropagates ==
    /\ cli.pc \in {"generating", "adding"}
    /\ pc = "raised"
    /\ cli' = [cli EXCEPT !.pc = "raised"]
    /\ UNCHANGED <<fs, cwd, spawned, lastOp>>
    /\ Left

\* "Would you like to add features ...?" / "... add more features?" answered
\* no: original_dir is read again from os.getcwd()
MainDeclinesFeatures ==
    /\ cli.pc \in {"ask_features", "ask_more"}
    /\ cwd' = IF cwd # dirname(abspath(cli.project_folder, cwd))
              THEN os_chdir(fs, cwd, cwd).cwd ELSE cwd
    /\ cli' = [cli EXCEPT !.pc = "done", !.original_dir = cwd, !.dumped = NoResult]
    /\ UNCHANGED <<fs, spawned, lastOp>>
    /\ UNCHANGED loopVars

\* "Would you like to add features to this project?" answered yes
MainWantsFeatures ==
    /\ cli.pc = "ask_features"
    /\ cli' = [cli EXCEPT !.pc = "confirm_feature", !.dumped = NoResult]
    /\ UNCHANGED <<fs, cwd, spawned, lastOp>>
    /\ UNCHANGED loopVars

\* "Ready to add this feature?" answered no: add_features_to_project returns
FeatureCancelled ==
    /\ cli.pc = "confirm_feature"
    /\ cli' = [cli EXCEPT !.pc = "done"]
    /\ UNCHANGED <<fs, cwd, spawned, lastOp>>
    /\ UNCHANGED loopVars

\* "Ready to add this feature?" answered yes: add_feature_to_project is called
FeatureConfirmed ==
    /\ cli.pc = "confirm_feature"
    /\ Enter("feature", "ok", cli.project_info, NoSelection)
    /\ cli' = [cli EXCEPT !.pc = "adding"]

FeatureReturns_ExtendsProjectInfo ==
    /\ cli.pc = "adding"
    /\ pc = "returned"
    /\ cli' = [cli EXCEPT !.pc = "ask_more", !.project_info = @ \o result.files_created]
    /\ UNCHANGED <<fs, cwd, spawned, lastOp>>
    /\ Left

\* add_feature_to_project returned: its summary is shown
FeatureReturns ==
    /\ cli.pc = "adding"
    /\ pc = "returned"
    /\ cli' = [cli EXCEPT !.pc = "ask_more"]
    /\ UNCHANGED <<fs, cwd, spawned, lastOp>>
    /\ Left

\* "Would you like to add more features?" answered yes: the recursive call
MoreFeatures ==
    /\ cli.pc = "ask_more"
    /\ cli.rounds < MaxFeatureRounds
    /\ cli' = [cli EXCEPT !.pc = "confirm_feature", !.rounds = @ + 1]
    /\ UNCHANGED <<fs, cwd, spawned, lastOp>>
    /\ UNCHANGED loopVars

NextMain ==
    \/ \E folder \in FolderInputs, has_key \in BOOLEAN : MainPrepare(folder, has_key)
    \/ MainDeclines
    \/ MainConfirms
    \/ BeginStep
    \/ ExhaustBudget
    \/ MainCallFails
    \/ \E content \in {TextWorking, TextGenDone, TextFeatDone} : MainCallText(content)
    \/ \E turn \in {TurnExample, TurnFailures} :
          \E outs \in OutcomesFor(turn) : MainCallTools(turn, outs)
    \/ SummaryCallReturns
    \/ SummaryCallFails
    \/ MainSavesSummary
    \/ MainPropagates
    \/ MainDeclinesFeatures
    \/ MainWantsFeatures
    \/ FeatureCancelled
    \/ FeatureConfirmed
    \/ FeatureReturns
    \/ MoreFeatures

SpecMain == Init /\ [][NextMain]_vars

-----------------------------------------------------------------------------
(* Properties *)

\* the absolute form of p is the working root or lies below it
InsideRoot(p, wd) ==
    LET a == abspath(p, wd)
        r == abspath(wd, wd)
    IN a = r \/ StartsWith(a, IF r = Root THEN r ELSE r \o <<"/">>)

FileStoreOps ==
    {"read_file", "get_file_metadata", "list_directory_contents", "write_to_file", "create_directory"}

IsFailure(ret) == ret = RNone \/ ret = RBool(FALSE)

\* C1: every file store operation on a path whose absolute form is outside
\* the working root returns the failure sentinel and leaves the filesystem
\* unchanged
C1_SandboxRejectsOutside ==
    (lastOp.op \in FileStoreOps /\ lastOp.path # PyNone /\ ~InsideRoot(lastOp.path, cwd))
        => (~lastOp.raised /\ IsFailure(lastOp.ret) /\ ~lastOp.mutated)

\* two characters that are the same letter, whatever their case
EqIgnoreCase(a, b) ==
    \/ a = b
    \/ a \in DOMAIN LowerTable /\ LowerTable[a] = b
    \/ b \in DOMAIN LowerTable /\ LowerTable[b] = a

\* c has a token, delimited by whitespace or by the ends of c, that reads sudo
HasSudoToken(c) ==
    \E i \in 1..Len(c) :
        /\ i + 3 <= Len(c)
        /\ \A j \in 1..4 : EqIgnoreCase(c[i + j - 1], Sudo[j])
        /\ i = 1 \/ c[i - 1] \in Whitespace
        /\ i + 3 = Len(c) \/ c[i + 4] \in Whitespace

\* C2: run_command on a command with a token equal to sudo, ignoring case,
\* returns None and no process is spawned for it
C2_SudoNeverSpawned ==
    (lastOp.op = "run_command" /\ lastOp.path # PyNone /\ HasSudoToken(lastOp.path))
        => (~lastOp.raised /\ lastOp.ret = RNone /\ ~lastOp.spawn /\ lastOp.path \notin spawned)

C2_Witness ==
    /\ lastOp.op = "run_command"
    /\ lastOp.path = <<"l", "s", " ", "S", "U", "D", "O">>
    /\ lastOp.mode = "exit0"
    /\ lastOp.ret = RNone

NumMainCalls == Cardinality({i \in 1..Len(calls) : calls[i].kind = "main"})
NumSummaryCalls == Cardinality({i \in 1..Len(calls) : calls[i].kind = "summary"})
ErrorRecords == {i \in 1..Len(actions_taken) : actions_taken[i].error # ""}
Terminal == {"COMPLETE", "BUDGET_EXHAUSTED", "FAILED"}
\* the function has left its loop
AfterLoop == pc = "summary" \/ NumSummaryCalls > 0
\* the function has ended, by a return or by an exception, after its loop
Ended == pc \in {"returned", "raised"} /\ NumSummaryCalls > 0

Answers(id) ==
    {j \in 1..Len(messages) : messages[j].role = "tool" /\ messages[j].tool_call_id = id}

\* C3: when a model call is issued, every tool call of every assistant
\* message of the transcript has exactly one tool message with its id, and
\* that message comes after the assistant message
C3_ToolCallsAnswered ==
    pc \in {"call", "summary"} =>
        \A a \in 1..Len(messages) :
            \A k \in 1..Len(messages[a].tool_calls) :
                /\ Cardinality(Answers(messages[a].tool_calls[k])) = 1
                /\ \A j \in Answers(messages[a].tool_calls[k]) : j > a

HasPhrase(text, phrase) ==
    \E i \in 1..(Len(text) - Len(phrase) + 1) :
        \A j \in 1..Len(phrase) : EqIgnoreCase(text[i + j - 1], phrase[j])

CompletionPhrases(uc) ==
    IF uc = "generate" THEN {GenPhrase1, GenPhrase2} ELSE {FeatPhrase1, FeatPhrase2}

\* the reply of the current step is plain text with a completion phrase
SaysComplete ==
    /\ lastReply.kind = "text"
    /\ lastReply.content # PyNone
    /\ \E ph \in CompletionPhrases(useCase) : HasPhrase(lastReply.content, ph)

\* C4: when the plain-text reply of turn k has a completion phrase, the loop
\* is COMPLETE at step k, k main calls were issued and none is issued
\* afterwards, one summary call follows, and total_steps is k
C4_CompletionStopsLoop ==
    /\ [](SaysComplete =>
            /\ loopState = "COMPLETE"
            /\ AfterLoop
            /\ step = NumMainCalls
            /\ ErrorRecords = {}
            /\ pc = "summary" => NumSummaryCalls = 0
            /\ pc # "summary" => NumSummaryCalls = 1 /\ calls[Len(calls)].kind = "summary"
            /\ pc = "returned" => result.total_steps = NumMainCalls)
    /\ [][SaysComplete => NumMainCalls' = NumMainCalls]_vars

C4_Witness ==
    /\ SaysComplete
    /\ lastReply.content = TextGenDoneCaps
    /\ pc = "returned"
    /\ result.total_steps = 3
    /\ NumMainCalls = 3
    /\ NumSummaryCalls = 1

\* C5: when no reply has a completion phrase and no turn fails, the loop
\* ends in BUDGET_EXHAUSTED after exactly max_steps main calls with
\* total_steps = max_steps; and it ends so in no other case
C5_BudgetExhaustion ==
    /\ (AfterLoop /\ ErrorRecords = {} /\ ~SaysComplete) =>
            /\ loopState = "BUDGET_EXHAUSTED"
            /\ step = max_steps
            /\ NumMainCalls = max_steps
            /\ pc = "returned" => result.total_steps = max_steps
    /\ loopState = "BUDGET_EXHAUSTED" =>
            (AfterLoop /\ ErrorRecords = {} /\ ~SaysComplete /\ NumMainCalls = max_steps)

C5_Witness ==
    /\ loopState = "BUDGET_EXHAUSTED"
    /\ pc = "returned"
    /\ useCase = "generate"
    /\ toolTurns = 2
    /\ lastReply.kind = "tools"
    /\ result.total_steps = 25
    /\ NumMainCalls = 25

\* the position of the last write_to_file on filename among the first i - 1
\* calls of the turn, or 0
LastWriteBefore(turn, i, filename) ==
    LET ws == {j \in 1..(i - 1) : turn[j].name = "write_to_file"
                                  /\ Get(turn[j].args, "filename", PyNone) = filename}
    IN IF ws = {} THEN 0 ELSE CHOOSE j \in ws : \A k \in ws : k <= j

EndsWith(q, suffix) ==
    Len(suffix) <= Len(q) /\ SubSeq(q, Len(q) - Len(suffix) + 1, Len(q)) = suffix

\* C6: the tool calls of a turn are executed in the requested order, a
\* read_file that follows a successful write_to_file of the same file in the
\* turn returns what was written, and the action records and tool messages
\* of the turn are in the requested order
C6_SequentialDispatch ==
    /\ \A p, q \in 1..Len(executed) :
          (p < q /\ executed[p][1] = executed[q][1]) => executed[p][2] < executed[q][2]
    /\ (lastReply.kind = "tools" /\ pc = "loop") =>
          LET turn == lastReply.turn
              n == Len(turn)
              abase == Len(actions_taken) - n
              mbase == Len(messages) - n
          IN /\ abase >= 0
             /\ mbase >= 0
             /\ \A i \in 1..n :
                  /\ actions_taken[abase + i].step = step
                  /\ actions_taken[abase + i].action = turn[i].name
                  /\ actions_taken[abase + i].args = turn[i].args
                  /\ messages[mbase + i].role = "tool"
                  /\ messages[mbase + i].tool_call_id = turn[i].id
                  /\ messages[mbase + i].output = actions_taken[abase + i].result
             /\ \A i \in 1..n :
                  LET filename == Get(turn[i].args, "filename", PyNone)
                      j == LastWriteBefore(turn, i, filename)
                  IN (turn[i].name = "read_file" /\ j > 0
                        /\ actions_taken[abase + j].result = RDict(TRUE))
                     => /\ actions_taken[abase + i].result.t = "str"
                        /\ Get(turn[j].args, "mode", "w") = "w"
                             => actions_taken[abase + i].result.v = turn[j].args.content
                        /\ Get(turn[j].args, "mode", "w") = "a"
                             => EndsWith(actions_taken[abase + i].result.v, turn[j].args.content)

C6_Witness ==
    /\ lastReply.kind = "tools"
    /\ pc = "loop"
    /\ Len(lastReply.turn) = 3
    /\ lastReply.turn[1].name = "create_directory"
    /\ lastReply.turn[2].name = "write_to_file"
    /\ lastReply.turn[3].name = "read_file"
    /\ actions_taken[Len(actions_taken)].result = RStr(<<"y">>)
    /\ executed = <<<<step, 1>>, <<step, 2>>, <<step, 3>>>>

\* C7: a failed main call at step k ends the loop in FAILED at once with one
\* error record for step k as the last record; the records appended before
\* stay as they were and no main call follows
C7_ProviderFailureStops ==
    /\ [](lastReply.kind = "error" =>
            /\ loopState = "FAILED"
            /\ AfterLoop
            /\ step = NumMainCalls
            /\ ErrorRecords = {Len(actions_taken)}
            /\ actions_taken[Len(actions_taken)].step = NumMainCalls
            /\ actions_taken[Len(actions_taken)].error = "provider")
    /\ [][(lastReply.kind # "error" /\ lastReply'.kind = "error") =>
            /\ Len(actions_taken') = Len(actions_taken) + 1
            /\ SubSeq(actions_taken', 1, Len(actions_taken)) = actions_taken]_vars
    /\ [][lastReply.kind = "error" =>
            /\ actions_taken' = actions_taken
            /\ NumMainCalls' = NumMainCalls]_vars

C7_Witness ==
    /\ lastReply.kind = "error"
    /\ pc = "returned"
    /\ step = 3
    /\ Len(actions_taken) = 4
    /\ result.actions = actions_taken

MainCallFailed == \E i \in 1..Len(calls) : calls[i].kind = "main" /\ ~calls[i].ok
SummaryCallFailed == \E i \in 1..Len(calls) : calls[i].kind = "summary" /\ ~calls[i].ok

\* C8: after a failed main call the function returns a record with the
\* action log and the file and directory lists collected, whatever the
\* provider does afterwards
C8_PartialResultsReturned ==
    (MainCallFailed /\ Ended) =>
        /\ pc = "returned"
        /\ result.returned
        /\ result.actions = actions_taken
        /\ result.files_created = generated_files
        /\ result.directories_created = generated_dirs

\* C9: when the summary call fails the function still returns its record,
\* with an empty summary and the action log, step count and lists computed
C9_SummaryFailureIsolated ==
    SummaryCallFailed =>
        /\ pc = "returned"
        /\ result.returned
        /\ result.summary = ""
        /\ result.actions = actions_taken
        /\ result.total_steps = step
        /\ result.files_created = generated_files
        /\ result.directories_created = generated_dirs

SummaryRequests ==
    {i \in 1..Len(messages) : messages[i].role = "user" /\ messages[i].content = "summary"}

\* C10: in each terminal state one summary request is appended as the last
\* message and then one model call without tools is issued; no summary
\* request or summary call is made while the loop runs, and every main call
\* precedes the summary call
C10_SummaryAfterTermination ==
    /\ pc \in {"idle", "loop", "call"} =>
          (loopState = "RUNNING" /\ SummaryRequests = {} /\ NumSummaryCalls = 0)
    /\ loopState \in Terminal =>
          (AfterLoop /\ SummaryRequests = {Len(messages)})
    /\ pc = "summary" => (loopState \in Terminal /\ NumSummaryCalls = 0)
    /\ Ended => (loopState \in Terminal /\ NumSummaryCalls = 1)
    /\ \A i \in 1..Len(calls) :
          /\ calls[i].kind = "main" => calls[i].tools
          /\ calls[i].kind = "summary" =>
                (i = Len(calls) /\ ~calls[i].tools /\ calls[i].sent = Len(messages))

C10_Witness ==
    /\ pc = "raised"
    /\ loopState = "FAILED"
    /\ NumSummaryCalls = 1
    /\ ~calls[Len(calls)].tools
    /\ NumMainCalls = 2

\* main() changed the working directory to the project directory
MainChangedDir ==
    /\ cli.project_folder # <<>>
    /\ abspath(cli.project_folder, ProjectRoot) # ProjectRoot
    /\ cli.pc # "start"

\* C11: when main() has ended, by a return or by an exception, after it
\* changed the working directory to the project directory, the working
\* directory is again the directory that was current when main() started
C11_WorkingDirectoryRestored ==
    (cli.pc \in {"done", "raised"} /\ MainChangedDir) => cwd = ProjectRoot

\* where the summary file belongs: in the project directory itself
SummaryKey == Child(abspath(cli.project_folder, ProjectRoot), SummaryName)

\* C12: when main() has received the result of generate_project, its next
\* step leaves the file <project_name>_generation_summary.json, holding that
\* result, in the project directory, for every project directory answered
C12_SummarySavedInProjectDir ==
    [][(cli.pc = "generating" /\ pc = "returned" /\ cli'.pc # "generating") =>
            /\ cli'.pc = "ask_features"
            /\ IsFileKey(fs', SummaryKey)
            /\ fs'[SummaryKey].content = JsonText
            /\ cli'.dumped = result]_vars

\* the directories main() creates for the project: the project directory and its parents
RECURSIVE Ancestors(_)
Ancestors(k) == IF k = Root THEN {k} ELSE {k} \cup Ancestors(Parent(k))

\* nothing was created or changed except directories on the way to the project directory
OnlyProjectDirsCreated(f, folder) ==
    /\ \A k \in DOMAIN InitFs : k \in DOMAIN f /\ f[k] = InitFs[k]
    /\ \A k \in DOMAIN f \ DOMAIN InitFs :
          f[k] = DirNode /\ k \in Ancestors(abspath(folder, ProjectRoot))

\* C20: when the operator declines "Ready to generate your project?", main()
\* returns having issued no model call and dispatched no tool, with nothing
\* created or modified on the filesystem but the project directory and its
\* parents, which were created before the prompt
C20_DeclineIsCleanNoOp ==
    /\ [](cli.pc = "confirm" =>
            /\ pc = "idle" /\ calls = <<>> /\ executed = <<>> /\ spawned = {} /\ toolTurns = 0
            /\ OnlyProjectDirsCreated(fs, cli.project_folder))
    /\ [][(cli.pc = "confirm" /\ cli'.pc \notin {"confirm", "generating"}) =>
            /\ cli'.pc = "done"
            /\ pc' = "idle" /\ calls' = <<>> /\ executed' = <<>> /\ spawned' = {}
            /\ toolTurns' = 0
            /\ fs' = fs
            /\ OnlyProjectDirsCreated(fs', cli.project_folder)]_vars
    /\ [][(cli.pc = "done") => FALSE]_vars

C20_Witness ==
    /\ cli.pc = "done"
    /\ cli.project_folder = <<"j", "/", "n">>
    /\ cwd = ProjectRoot
    /\ IsDirKey(fs, <<"/", "w", "/", "p", "/", "j", "/", "n">>)
    /\ calls = <<>>
    /\ toolTurns = 0

\* the write_to_file calls of a turn
IsWrite(c) == c.name = "write_to_file"
\* a write that overwrites (mode "w", or no mode given) a file the known list does not name
WritesNew(c) ==
    /\ IsWrite(c)
    /\ ("mode" \notin DOMAIN c.args \/ c.args.mode = "w")
    /\ \A i \in 1..Len(existing_files) : existing_files[i] # Get(c.args, "filename", PyNone)
WritesKnownOrAppends(c) == IsWrite(c) /\ ~WritesNew(c)

RECURSIVE FilenamesOf(_)
FilenamesOf(q) ==
    IF q = <<>> THEN <<>> ELSE <<Get(Head(q).args, "filename", PyNone)>> \o FilenamesOf(Tail(q))

\* C13: in add_feature_to_project a turn's write_to_file calls that overwrite
\* a file outside the known list are added, in order, to the new files, and
\* all its other write_to_file calls (append mode, or a known file) to the
\* modified files; no other call is added to either list
C13_NewOrModified ==
    [][(useCase = "feature" /\ pc = "call" /\ pc' = "loop" /\ lastReply'.kind = "tools") =>
            /\ generated_files' =
                  generated_files \o FilenamesOf(SelectSeq(lastReply'.turn, WritesNew))
            /\ Elems(modified_files') =
                  Elems(modified_files)
                     \cup Elems(FilenamesOf(SelectSeq(lastReply'.turn, WritesKnownOrAppends)))
            /\ Len(modified_files') = Cardinality(Elems(modified_files'))]_vars

C13_Witness ==
    /\ useCase = "feature"
    /\ pc = "loop"
    /\ lastReply.kind = "tools"
    /\ Len(lastReply.turn) = 5
    /\ lastReply.turn[1].args.mode = "a"
    /\ existing_files = << <<"r">> >>
    /\ generated_files = << <<"n">> >>
    /\ modified_files = << <<"r">>, <<"n">> >>

IsOperationRecord(r) == r.error = "" /\ r.action \in ToolNames
\* the records a step added to the action log, and the calls it executed
AddedRecords == SubSeq(actions_taken', Len(actions_taken) + 1, Len(actions_taken'))
AddedExecuted == SubSeq(executed', Len(executed) + 1, Len(executed'))

\* C14: the records a tool turn adds to the action log for operations of the
\* catalog are, in order, the calls whose operation the dispatcher executed
\* in that turn, also when a later call of the turn fails to dispatch; and
\* the returned log is the log so built
C14_ExecutedCallsAreLogged ==
    /\ [](pc = "returned" => result.actions = actions_taken)
    /\ [][(pc = "call" /\ lastReply'.kind = "tools") =>
            LET recs == SelectSeq(AddedRecords, IsOperationRecord) IN
                /\ Len(actions_taken') >= Len(actions_taken)
                /\ Len(recs) = Len(AddedExecuted)
                /\ \A k \in 1..Len(recs) :
                      /\ recs[k].step = AddedExecuted[k][1]
                      /\ recs[k].action = lastReply'.turn[AddedExecuted[k][2]].name]_vars

\* C15: the progress callback has no influence on loop control: whichever
\* callback was supplied (none, one that returns, one that raises), a step
\* that starts goes on to its model call, as it does without a callback
C15_CallbackHasNoInfluence ==
    [][(pc = "loop" /\ step' = step + 1) => (pc' = "call" /\ loopState' = loopState)]_vars

ReportedFor(log, s) == \E i \in 1..Len(log) : log[i].current = s /\ log[i].max = max_steps

\* C16: with a callback supplied, every step that has started has had a
\* callback call (step, max_steps, text), and that call was made before the
\* step's model call was issued
C16_CallbackEveryStep ==
    /\ []((cb = "ok" /\ pc # "idle") => \A s \in 1..step : ReportedFor(progress, s))
    /\ [][(cb = "ok" /\ Len(calls') = Len(calls) + 1 /\ calls'[Len(calls')].kind = "main") =>
              ReportedFor(progress, calls'[Len(calls')].step)]_vars

C16_Witness ==
    /\ cb = "ok"
    /\ pc = "call"
    /\ step = 2
    /\ Len(calls) = 1
    /\ progress[Len(progress)] = [current |-> 2, max |-> max_steps, message |-> "Processing..."]

\* C17: no file store operation raises to its caller, whatever argument it
\* is given (a null path included)
C17_FileStoreNeverRaises == lastOp.op \in FileStoreOps => ~lastOp.raised

\* a call the dispatcher hands to an operation that returns: well-formed
\* arguments, the path argument present, no metadata record to serialise, and
\* for run_command a command the screen refuses
ReturnsQuietly(c) ==
    /\ ~json_loads_fails(c.args)
    /\ \/ c.name \in {"read_file", "write_to_file"} /\ "filename" \in DOMAIN c.args
       \/ c.name = "create_directory" /\ "directory_name" \in DOMAIN c.args
       \/ c.name = "list_directory_contents"
       \/ c.name = "run_command" /\ "command" \in DOMAIN c.args /\ HasSudoToken(c.args.command)

\* C18: a turn whose operations return, failures (None, False) included,
\* leaves the loop RUNNING: every call gets its ActionRecord and its tool
\* message carrying the call's id and the same result, and with budget left
\* the next thing the loop does is start the next step and issue its model call
C18_FailureDoesNotTerminate ==
    /\ [][(pc = "call" /\ lastReply'.kind = "tools"
              /\ \A i \in 1..Len(lastReply'.turn) : ReturnsQuietly(lastReply'.turn[i])) =>
            LET tcs == lastReply'.turn
                n == Len(tcs)
                tail == SubSeq(messages', Len(messages') - n + 1, Len(messages'))
            IN  /\ pc' = "loop"
                /\ loopState' = "RUNNING"
                /\ Len(messages') >= n
                /\ Len(AddedRecords) = n
                /\ \A i \in 1..n :
                      /\ tail[i].role = "tool"
                      /\ tail[i].tool_call_id = tcs[i].id
                      /\ AddedRecords[i].action = tcs[i].name
                      /\ AddedRecords[i].error = ""
                      /\ AddedRecords[i].result = tail[i].output]_vars
    /\ [][(pc = "loop" /\ loopState = "RUNNING" /\ step < max_steps /\ cb # "raises") =>
              (pc' = "call" /\ step' = step + 1)]_vars

C18_Witness ==
    /\ pc = "call"
    /\ step = 2
    /\ loopState = "RUNNING"
    /\ Len(actions_taken) = 3
    /\ actions_taken[1].action = "read_file" /\ actions_taken[1].result = RNone
    /\ actions_taken[2].action = "write_to_file" /\ actions_taken[2].result = RDict(FALSE)
    /\ actions_taken[3].action = "run_command" /\ actions_taken[3].result = RNone
    /\ messages[Len(messages)].role = "tool"
    /\ messages[Len(messages)].tool_call_id = <<1, 3>>
    /\ messages[Len(messages)].output = RNone

IsUnknown(c) == c.name \notin ToolNames /\ ~json_loads_fails(c.args)

\* C19: in a turn made of calls with names outside the catalog and calls
\* whose operations return, an unknown call runs no operation and yields a
\* null result, it still gets its ActionRecord and its tool message carrying
\* its id, the other calls of the turn are executed, and the loop stays RUNNING
C19_UnknownToolIsHarmless ==
    [][(pc = "call" /\ lastReply'.kind = "tools"
           /\ \A i \in 1..Len(lastReply'.turn) :
                  IsUnknown(lastReply'.turn[i]) \/ ReturnsQuietly(lastReply'.turn[i])) =>
         LET tcs == lastReply'.turn
             n == Len(tcs)
             tail == SubSeq(messages', Len(messages') - n + 1, Len(messages'))
         IN  /\ pc' = "loop"
             /\ loopState' = "RUNNING"
             /\ Len(messages') >= n
             /\ Len(AddedRecords) = n
             /\ \A i \in 1..n :
                   /\ tail[i].role = "tool"
                   /\ tail[i].tool_call_id = tcs[i].id
                   /\ AddedRecords[i].action = tcs[i].name
                   /\ AddedRecords[i].error = ""
                   /\ IF IsUnknown(tcs[i])
                      THEN /\ tail[i].output = RNone
                           /\ AddedRecords[i].result = RNone
                           /\ tcs[i].id \notin Elems(AddedExecuted)
                      ELSE tcs[i].id \in Elems(AddedExecuted)]_vars

C19_Witness ==
    /\ pc = "loop"
    /\ loopState = "RUNNING"
    /\ lastReply.kind = "tools"
    /\ lastReply.turn[1].name = "delete_file"
    /\ executed = << <<1, 2>> >>
    /\ Len(actions_taken) = 2
    /\ actions_taken[1].action = "delete_file" /\ actions_taken[1].result = RNone
    /\ actions_taken[2].action = "create_directory" /\ actions_taken[2].result = RDict(TRUE)
    /\ IsFileKey(fs, <<"/", "w", "/", "p", "/", "r">>)
    /\ IsDirKey(fs, <<"/", "w", "/", "p", "/", "d">>)

RECURSIVE UnderFile(_)
\* some ancestor of path p is a regular file
UnderFile(p) ==
    LET d == dirname(p) IN
        d # <<>> /\ d # p /\ (path_isfile(fs, cwd, d) \/ UnderFile(d))

\* the write named a file in the sandbox: a path inside the root that is not
\* a directory and does not lie under a regular file, and a string to write
WroteSandboxFile ==
    /\ lastOp.op = "write_to_file"
    /\ lastOp.mode = "w"
    /\ lastOp.path \notin {PyNone, <<>>}
    /\ lastOp.content # PyNone
    /\ InsideRoot(lastOp.path, cwd)
    /\ ~path_isdir(fs, cwd, lastOp.path)
    /\ ~UnderFile(lastOp.path)

\* C21: write_to_file(f, c) in overwrite mode followed by read_file(f)
\* returns exactly c, for every file f in the sandbox, whatever it held
\* before and whether or not its parent directories existed
C21_WriteReadRoundTrip ==
    [][(WroteSandboxFile /\ lastOp'.op = "read_file" /\ lastOp'.path = lastOp.path) =>
            /\ lastOp.ret = RBool(TRUE)
            /\ lastOp'.ret = RStr(lastOp.content)]_vars

\* create_directory was called a second time on the path of its first call
CalledTwice ==
    /\ lastOp.op = "create_directory" /\ lastOp.mode = ""
    /\ lastOp'.op = "create_directory" /\ lastOp'.mode = "again"
    /\ lastOp.path # PyNone
    /\ InsideRoot(lastOp.path, cwd)
    /\ ~path_isfile(fs, cwd, lastOp.path)
BothSucceedAndAgree ==
    /\ lastOp.ret = RBool(TRUE)
    /\ lastOp'.ret = RBool(TRUE)
    /\ fs' = fs
    /\ path_isdir(fs', cwd, lastOp.path)

\* C22 (as stated): for every path d in the sandbox that is not an existing
\* regular file, create_directory(d) called twice returns True both times and
\* the second call leaves the filesystem as the first left it
C22_MkdirTwice_AsStated == [][CalledTwice => BothSucceedAndAgree]_vars

\* C22 (amended): the same, for every non-empty path d in the sandbox such
\* that neither d nor any of its ancestors is an existing regular file
C22_MkdirTwice ==
    [][(CalledTwice /\ lastOp.path # <<>> /\ ~UnderFile(lastOp.path)) => BothSucceedAndAgree]_vars

C22_Witness ==
    /\ lastOp.op = "create_directory"
    /\ lastOp.mode = "again"
    /\ lastOp.path = <<"a", "/", "b">>
    /\ lastOp.ret = RBool(TRUE)
    /\ ~lastOp.mutated
    /\ IsDirKey(fs, <<"/", "w", "/", "p", "/", "a", "/", "b">>)

\* what run_command gave for a command that ran: the record with the exit
\* code of the process, also when that code is not zero
GaveExitCode(op) ==
    op.ret.t = "proc" /\ op.ret.returncode = (IF op.mode = "exit0" THEN 0 ELSE 1)

\* C23: run_command never raises, whatever command it is given (a null
\* command included): it returns a {stdout, stderr, returncode} record or
\* None, and a command that ran and exited, with a code of zero or not,
\* gives the record with that code
C23_RunCommandNeverRaises ==
    lastOp.op = "run_command" =>
        /\ ~lastOp.raised
        /\ lastOp.ret.t \in {"none", "proc"}
        /\ (lastOp.spawn /\ lastOp.mode \in {"exit0", "exit1"}) => GaveExitCode(lastOp)

FeatureNames == {"git", "tests", "github_actions", "docs"}
IncludeDirective ==
    [git |-> "Git initialization with appropriate .gitignore",
     tests |-> "Testing framework with sample tests",
     github_actions |-> "GitHub Actions CI/CD workflows",
     docs |-> "Documentation structure and templates"]
ExcludeDirective ==
    [git |-> "Do NOT initialize Git or create any .gitignore files",
     tests |-> "Do NOT include any testing frameworks or test files",
     github_actions |-> "Do NOT include any GitHub Actions or CI/CD workflow files",
     docs |-> "Do NOT create documentation directories or files beyond a basic README.md"]
\* feature k is selected true in the argument of the call
IsSelected(k) ==
    /\ ~selected_features.none
    /\ k \in DOMAIN selected_features.map
    /\ selected_features.map[k]
Occurrences(q, x) == Cardinality({i \in 1..Len(q) : q[i] = x})
\* generate_project has seeded its transcript
Seeded == useCase = "generate" /\ pc # "idle" /\ Len(messages) >= 2

\* C24: for every selected_features argument and each of the four features,
\* the seeded user message holds exactly one of the feature's two directives:
\* the include directive when the feature is selected true, the "Do NOT"
\* directive otherwise
C24_OneDirectivePerFeature ==
    Seeded =>
        \A k \in FeatureNames :
            /\ Occurrences(messages[2].features, IncludeDirective[k])
                  = (IF IsSelected(k) THEN 1 ELSE 0)
            /\ Occurrences(messages[2].features, ExcludeDirective[k])
                  = (IF IsSelected(k) THEN 0 ELSE 1)

\* C25: the features field of every result generate_project returns is a
\* mapping with exactly the keys git, tests, github_actions and docs, each a
\* boolean, whatever the selected_features argument was
C25_FeaturesFieldHasFourKeys ==
    (useCase = "generate" /\ pc = "returned") =>
        /\ DOMAIN result.features = FeatureNames
        /\ \A k \in FeatureNames : result.features[k] \in BOOLEAN

\* C26: every invocation whose calls all return reaches its return, whatever
\* the model replies, and by then it has issued at most max_steps model calls
\* in its loop and one summary call
C26_Terminates ==
    /\ (pc = "loop") ~> (pc = "returned")
    /\ [](NumMainCalls <= max_steps /\ NumSummaryCalls <= 1)
    /\ [](pc = "returned" => NumSummaryCalls = 1)

C26_Witness ==
    /\ pc = "returned"
    /\ loopState = "BUDGET_EXHAUSTED"
    /\ NumMainCalls = max_steps
    /\ NumSummaryCalls = 1
    /\ toolTurns = 0

\* C27: in every state of the loop the step counter is at most max_steps,
\* which is 25 for generation and 15 for feature addition; the main-loop
\* model calls issued so far are as many as the steps started (one fewer
\* while the call of the current step is still to be issued), and the
\* returned total_steps lies in 1..max_steps
C27_StepCounterBounded ==
    pc # "idle" =>
        /\ max_steps = (IF useCase = "generate" THEN 25 ELSE 15)
        /\ step \in 0..max_steps
        /\ pc \in {"loop", "summary", "returned"} => NumMainCalls = step
        /\ pc = "call" => NumMainCalls = step - 1
        /\ pc = "returned" => result.total_steps = step /\ result.total_steps \in 1..max_steps

C27_Witness ==
    /\ pc = "returned"
    /\ useCase = "feature"
    /\ result.total_steps = 15
    /\ NumMainCalls = 15
    /\ toolTurns = 1

\* C28: a reply that carries tool calls never ends the loop in COMPLETE,
\* whatever its text says: its tool calls are dispatched (all of them, when
\* their operations return), the loop stays RUNNING unless the dispatch
\* failed, and COMPLETE is only ever reached on a plain-text reply
C28_ToolTurnNeverCompletes ==
    /\ [](loopState = "COMPLETE" => lastReply.kind = "text")
    /\ [][(pc = "call" /\ lastReply'.kind = "tools") =>
             /\ loopState' \in {"RUNNING", "FAILED"}
             /\ loopState' = "RUNNING" => pc' = "loop"
             /\ (\A i \in 1..Len(lastReply'.turn) : ReturnsQuietly(lastReply'.turn[i])) =>
                   /\ loopState' = "RUNNING"
                   /\ AddedExecuted = [i \in 1..Len(lastReply'.turn) |-> lastReply'.turn[i].id]]_vars

C28_Witness ==
    /\ pc = "loop"
    /\ useCase = "generate"
    /\ loopState = "RUNNING"
    /\ lastReply.kind = "tools"
    /\ lastReply.content = TextGenDone
    /\ Len(executed) = 3
    /\ step < max_steps

\* the model call of the current step is answered with plain text
TextArrives == pc = "call" /\ lastReply'.kind = "text" /\ lastReply'.content # PyNone
IsContinue(m) == m.role = "user" /\ m.content = "continue"
Continues(msgs) == Cardinality({i \in 1..Len(msgs) : IsContinue(msgs[i])})

\* C29: after a plain-text reply without a completion phrase, one "continue"
\* user message is appended directly after the reply and the loop goes on to
\* its next step; after a plain-text reply with a completion phrase no
\* "continue" message is appended
C29_ContinueAfterPlainText ==
    [][TextArrives =>
          /\ Len(messages') = Len(messages) + 2
          /\ SubSeq(messages', 1, Len(messages)) = messages
          /\ messages'[Len(messages) + 1].role = "assistant"
          /\ IF SaysComplete'
             THEN /\ Continues(messages') = Continues(messages)
                  /\ pc' = "summary"
             ELSE /\ IsContinue(messages'[Len(messages) + 2])
                  /\ Continues(messages') = Continues(messages) + 1
                  /\ pc' = "loop"
                  /\ loopState' = "RUNNING"]_vars

C29_Witness ==
    /\ pc = "call"
    /\ step = 3
    /\ toolTurns = 0
    /\ Continues(messages) = 2
    /\ IsContinue(messages[Len(messages)])
    /\ messages[Len(messages) - 1].role = "assistant"

Phrase_GenerationIsComplete ==
    <<"p", "r", "o", "j", "e", "c", "t", " ", "g", "e", "n", "e", "r", "a", "t", "i", "o", "n",
      " ", "i", "s", " ", "c", "o", "m", "p", "l", "e", "t", "e">>
Phrase_StructureIsNowComplete ==
    <<"p", "r", "o", "j", "e", "c", "t", " ", "s", "t", "r", "u", "c", "t", "u", "r", "e", " ",
      "i", "s", " ", "n", "o", "w", " ", "c", "o", "m", "p", "l", "e", "t", "e">>
Phrase_ImplementationIsComplete ==
    <<"f", "e", "a", "t", "u", "r", "e", " ", "i", "m", "p", "l", "e", "m", "e", "n", "t", "a",
      "t", "i", "o", "n", " ", "i", "s", " ", "c", "o", "m", "p", "l", "e", "t", "e">>
Phrase_HasBeenSuccessfullyAdded ==
    <<"f", "e", "a", "t", "u", "r", "e", " ", "h", "a", "s", " ", "b", "e", "e", "n", " ", "s",
      "u", "c", "c", "e", "s", "s", "f", "u", "l", "l", "y", " ", "a", "d", "d", "e", "d">>
\* the text holds, ignoring case, a completion phrase of use case uc
HoldsPhraseOf(uc, text) ==
    IF uc = "generate"
    THEN HasPhrase(text, Phrase_GenerationIsComplete)
            \/ HasPhrase(text, Phrase_StructureIsNowComplete)
    ELSE HasPhrase(text, Phrase_ImplementationIsComplete)
            \/ HasPhrase(text, Phrase_HasBeenSuccessfullyAdded)

\* C30: a plain-text reply completes the generation loop if and only if its
\* text holds, ignoring case, "project generation is complete" or "project
\* structure is now complete", and the feature loop if and only if it holds
\* "feature implementation is complete" or "feature has been successfully
\* added"; a phrase of the other use case does not complete the loop
C30_CompletionPerUseCase ==
    [][TextArrives =>
          /\ loopState' = "COMPLETE" <=> HoldsPhraseOf(useCase, lastReply'.content)
          /\ loopState' # "COMPLETE" => loopState' = "RUNNING" /\ pc' = "loop"]_vars

C30_Witness ==
    /\ useCase = "generate"
    /\ lastReply.kind = "text"
    /\ lastReply.content = TextFeatDoneCaps
    /\ loopState = "RUNNING"
    /\ pc = "loop"


-----------------------------------------------------------------------------
(* The counts and lists of the result against its action log. *)

IsWriteRecord(r) == r.action = "write_to_file"
IsMkdirRecord(r) == r.action = "create_directory"

RECURSIVE DirnamesOf(_)
DirnamesOf(q) ==
    IF q = <<>> THEN <<>>
    ELSE <<Get(Head(q).args, "directory_name", PyNone)>> \o DirnamesOf(Tail(q))

\* the lists of the result are the targets of the log's write_to_file and
\* create_directory records, in log order, and the totals are their numbers
ListsMatchLog(res) ==
    /\ res.total_files = Len(SelectSeq(res.actions, IsWriteRecord))
    /\ res.total_directories = Len(SelectSeq(res.actions, IsMkdirRecord))
    /\ res.files_created = FilenamesOf(SelectSeq(res.actions, IsWriteRecord))
    /\ res.directories_created = DirnamesOf(SelectSeq(res.actions, IsMkdirRecord))

\* C31: in every result of generate_project total_files is the number of
\* write_to_file records of the action log and total_directories the number
\* of create_directory records, failed and repeated calls included, and
\* files_created and directories_created list the targets of those records
\* in log order
C31_ListsMatchLog ==
    (result.returned /\ useCase = "generate") => ListsMatchLog(result)

\* the same for the runs whose progress callback never raises inside the
\* tracking loop
C31_ListsMatchLog_QuietCallback ==
    (result.returned /\ useCase = "generate" /\ cb # "raises_on_created")
        => ListsMatchLog(result)


-----------------------------------------------------------------------------
(* The classification of the writes of add_feature_to_project. *)

IsNewWriteRecord(r) == IsWriteRecord(r) /\ WritesNew([name |-> r.action, args |-> r.args])
IsOtherWriteRecord(r) == IsWriteRecord(r) /\ ~IsNewWriteRecord(r)

\* C32: in add_feature_to_project the known file list does not change during
\* the invocation; a write is classified by its mode and by membership in
\* that list alone, whatever was written earlier in the invocation: new_files
\* has one entry for every overwrite-mode write of a name outside the list,
\* and modified_files holds the names of the other writes, each name once
C32_ClassifiedByInitialList ==
    /\ [](useCase = "feature" =>
            /\ generated_files = FilenamesOf(SelectSeq(actions_taken, IsNewWriteRecord))
            /\ Elems(modified_files) =
                  Elems(FilenamesOf(SelectSeq(actions_taken, IsOtherWriteRecord)))
            /\ Len(modified_files) = Cardinality(Elems(modified_files)))
    /\ [][pc # "idle" => existing_files' = existing_files]_vars

\* a result in which a name outside the known list was overwritten twice and
\* also appended to: it is twice in new_files and once in modified_files
C32_Witness ==
    /\ result.returned
    /\ useCase = "feature"
    /\ existing_files = << <<"r">> >>
    /\ result.files_created = << <<"n">>, <<"n">> >>
    /\ result.modified_files = << <<"r">>, <<"n">> >>
    /\ Len(SelectSeq(result.actions, IsWriteRecord)) = 8


-----------------------------------------------------------------------------
(* The project_info handed to the feature additions of one session. *)

AfterGeneration == cli.pc \in {"ask_features", "confirm_feature", "adding", "ask_more"}
CallsAddFeature == cli.pc = "confirm_feature" /\ cli'.pc = "adding"

\* C33: in one session of the CLI the project_info is the result of the
\* generation and stays what it is through every feature addition, and each
\* add_feature_to_project call takes its known file list from it: what an
\* earlier feature addition created is not in the list of a later one
C33_SameProjectInfoEveryRound ==
    [][/\ (cli.pc = "generating" /\ cli'.pc = "ask_features")
            => cli'.project_info = result.files_created
       /\ AfterGeneration => cli'.project_info = cli.project_info
       /\ CallsAddFeature => existing_files' = cli.project_info]_vars

\* the second feature addition has just been entered; the file a/b, written
\* by the first one, is not in its known file list
C33_Witness ==
    /\ cli.pc = "adding"
    /\ cli.rounds = 1
    /\ pc = "loop"
    /\ step = 0
    /\ path_isfile(fs, cwd, <<"a", "/", "b">>)
    /\ <<"a", "/", "b">> \notin Elems(existing_files)
    /\ existing_files = cli.project_info


-----------------------------------------------------------------------------
(* The shape of a returned action log. *)

IsErrorRecord(r) == r.error # ""

\* C34: in every returned action log the steps never decrease and lie in
\* 1..total_steps; the log has at most one error record, and an error record
\* is the last record of the log and carries total_steps as its step
C34_LogShape ==
    result.returned =>
        LET log == result.actions IN
        /\ \A i \in 1..Len(log) : log[i].step \in 1..result.total_steps
        /\ \A i \in 1..Len(log), j \in 1..Len(log) : i < j => log[i].step <= log[j].step
        /\ Len(SelectSeq(log, IsErrorRecord)) <= 1
        /\ \A i \in 1..Len(log) :
              IsErrorRecord(log[i]) => i = Len(log) /\ log[i].step = result.total_steps

\* a returned log with operation records of step 1 and the error record of
\* step 2 behind them
C34_Witness ==
    /\ result.returned
    /\ result.total_steps = 2
    /\ Len(result.actions) >= 3
    /\ result.actions[1].step = 1
    /\ IsOperationRecord(result.actions[1])
    /\ IsErrorRecord(result.actions[Len(result.actions)])


-----------------------------------------------------------------------------
(* The transcript over the calls made on one ProjectGenerator. *)

IsEntry == pc \in {"idle", "returned", "raised"} /\ pc' = "loop"
IsPrefix(p, q) == Len(p) <= Len(q) /\ SubSeq(q, 1, Len(p)) = p

\* C35: every call of generate_project or add_feature_to_project starts with
\* a transcript of two messages, one system message and one user message,
\* whatever the transcript of the previous call on the same object held; a
\* step inside a call only appends to the transcript
C35_FreshTranscriptThenGrowth ==
    [][IF IsEntry
       THEN /\ Len(messages') = 2
            /\ messages'[1].role = "system"
            /\ messages'[2].role = "user"
            /\ messages'[2] \notin {SummaryRequest, ContinueRequest}
       ELSE IsPrefix(messages, messages')]_vars

\* a second call has been entered after a call whose transcript held the
\* answers to tool calls, and has grown its own transcript by one reply
C35_Witness ==
    /\ pc = "loop"
    /\ step = 1
    /\ toolTurns = 1
    /\ path_isfile(fs, cwd, <<"a", "/", "b">>)
    /\ Len(messages) = 4
    /\ messages[3].role = "assistant"
    /\ messages[4] = ContinueRequest


-----------------------------------------------------------------------------
(* A reply with neither tool calls nor a text. *)

NullReply(r) == r.kind = "text" /\ r.content = PyNone
NullReplyArrives == pc = "call" /\ NullReply(lastReply')

\* C36: a reply without tool calls whose content is null ends the loop at
\* that step as a failure: one error record of the step is appended to the
\* action log, the reply is followed in the transcript by the summary
\* request and not by a "continue" message, and the next call is the summary
\* call
C36_NullReplyIsFailure ==
    /\ [][NullReplyArrives =>
            /\ loopState' = "FAILED"
            /\ pc' = "summary"
            /\ step' = step
            /\ Len(actions_taken') = Len(actions_taken) + 1
            /\ SubSeq(actions_taken', 1, Len(actions_taken)) = actions_taken
            /\ IsErrorRecord(actions_taken'[Len(actions_taken')])
            /\ actions_taken'[Len(actions_taken')].step = step
            /\ Continues(messages') = Continues(messages)
            /\ messages' = messages \o <<AssistantMsg(<<>>), SummaryRequest>>]_vars
    /\ [][(NullReply(lastReply) /\ calls' # calls) =>
            /\ Len(calls') = Len(calls) + 1
            /\ calls'[Len(calls')].kind = "summary"
            /\ calls'[Len(calls')].sent = Len(messages)]_vars

\* the third reply was a null reply; the function has returned with the
\* records of an earlier tool turn and the error record of step 3
C36_Witness ==
    /\ NullReply(lastReply)
    /\ pc = "returned"
    /\ step = 3
    /\ toolTurns = 1
    /\ result.total_steps = 3
    /\ Len(result.actions) >= 2
    /\ IsErrorRecord(result.actions[Len(result.actions)])
    /\ result.actions[Len(result.actions)].error = "content"
    /\ calls[Len(calls)].kind = "summary"


-----------------------------------------------------------------------------
(* The arguments of the progress callback. *)

IsCompletionCall(c) == c.message = "complete"
AddedCalls == (Len(progress) + 1)..Len(progress')

\* C37: every call of the progress callback passes a current step in
\* 1..max_steps together with the max_steps of the loop, and the current
\* steps passed during one invocation never decrease; a call passes the
\* step in progress, except the one call made when the loop reaches
\* COMPLETE, which passes max_steps and is the last call of the invocation:
\* max_steps is passed in step max_steps or in that final call only
C37_CallbackArguments ==
    /\ [](cb = "ok" =>
            /\ \A i \in 1..Len(progress) :
                  progress[i].current \in 1..max_steps /\ progress[i].max = max_steps
            /\ \A i \in 1..Len(progress), j \in 1..Len(progress) :
                  i < j => progress[i].current <= progress[j].current
            /\ Len(SelectSeq(progress, IsCompletionCall)) <= 1)
    /\ [][cb = "ok" =>
            /\ pc # "idle" => SubSeq(progress', 1, Len(progress)) = progress
            /\ \A i \in AddedCalls :
                  IF IsCompletionCall(progress'[i])
                  THEN /\ progress'[i].current = max_steps
                       /\ i = Len(progress')
                       /\ loopState' = "COMPLETE"
                  ELSE progress'[i].current = step'
            /\ loopState = "COMPLETE" => progress' = progress]_vars

\* a loop that reached COMPLETE in its third step, after a turn with tool
\* calls: the calls passed 1, 2 and 3 and the final call passed max_steps
C37_Witness ==
    /\ cb = "ok"
    /\ pc = "returned"
    /\ loopState = "COMPLETE"
    /\ step = 3
    /\ toolTurns = 1
    /\ Len(progress) >= 8
    /\ progress[1].current = 1
    /\ progress[Len(progress) - 1].current = 3
    /\ progress[Len(progress)] = [current |-> max_steps, max |-> max_steps, message |-> "complete"]

====
